---- MODULE Spec2Model ----
(***************************************************************************)
(* Model of the inventory-order report parser (api/parse.ts): the line     *)
(* classifier, the tail and front field recoverers, the purchase-order and *)
(* special-order recoverer, the two line loops (parseAllLines,             *)
(* parseAllPOs), the statistics and parsePdf.                              *)
(*                                                                         *)
(* A JavaScript string is modelled as a tuple of one-character strings, a  *)
(* regular expression as a sequence of atoms (a character class with a     *)
(* repetition range), and a number read by parseFloat as an exact decimal. *)
(***************************************************************************)
EXTENDS Integers, Sequences, FiniteSets, TLC

(***************************************************************************)
(* Characters and strings                                                  *)
(***************************************************************************)
Digit == {"0", "1", "2", "3", "4", "5", "6", "7", "8", "9"}

UpperSeq == <<"A", "B", "C", "D", "E", "F", "G", "H", "I", "J", "K", "L", "M",
              "N", "O", "P", "Q", "R", "S", "T", "U", "V", "W", "X", "Y", "Z">>

LowerSeq == <<"a", "b", "c", "d", "e", "f", "g", "h", "i", "j", "k", "l", "m",
              "n", "o", "p", "q", "r", "s", "t", "u", "v", "w", "x", "y", "z">>

Upper == {UpperSeq[k] : k \in DOMAIN UpperSeq}

Lower == {LowerSeq[k] : k \in DOMAIN LowerSeq}

Alnum == Upper \cup Lower \cup Digit

\* \s of a regular expression
Space == {" ", "\t", "\n", "\r"}

\* every character (the complement of a class is taken in it)
AnyChar ==
  Alnum \cup Space \cup {":", ".", "/", "-", "*", "#", "=", "&", "'", ",", "(", ")", "_", "+"}

UpMap == [c \in Lower |-> UpperSeq[CHOOSE k \in DOMAIN LowerSeq : LowerSeq[k] = c]]

\* String.prototype.toUpperCase; a pattern with the i flag is matched against it
UpperStr(s) == [k \in 1..Len(s) |-> IF s[k] \in Lower THEN UpMap[s[k]] ELSE s[k]]

Min(a, b) == IF a < b THEN a ELSE b

\* s.substring(a, b) with 0-based a, exclusive b
Sub(s, a, b) == SubSeq(s, a + 1, b)

RECURSIVE SkipSpaceFwd(_, _)
\* the first 0-based position >= p of s holding no white space
SkipSpaceFwd(s, p) ==
  IF p < Len(s) /\ s[p + 1] \in Space THEN SkipSpaceFwd(s, p + 1) ELSE p

RECURSIVE SkipSpaceBack(_, _)
\* the least q <= p such that s[q+1..p] is white space
SkipSpaceBack(s, p) ==
  IF p > 0 /\ s[p] \in Space THEN SkipSpaceBack(s, p - 1) ELSE p

\* String.prototype.trim
Trim(s) ==
  LET a == SkipSpaceFwd(s, 0)
      b == SkipSpaceBack(s, Len(s))
  IN  IF a >= b THEN <<>> ELSE Sub(s, a, b)

RECURSIVE TokenEnd(_, _)
\* the end of the run of non-space characters that starts at position p
TokenEnd(s, p) ==
  IF p < Len(s) /\ s[p + 1] \notin Space THEN TokenEnd(s, p + 1) ELSE p

RECURSIVE SplitFrom(_, _)
SplitFrom(s, p) ==
  IF p >= Len(s) THEN <<>>
  ELSE LET e == TokenEnd(s, p)
       IN  <<Sub(s, p, e)>> \o SplitFrom(s, SkipSpaceFwd(s, e))

\* trimmed.split(/\s+/) of a trimmed string: the empty string gives [""]
SplitWs(s) == IF Len(s) = 0 THEN << <<>> >> ELSE SplitFrom(s, 0)

RECURSIVE JoinWith(_, _)
\* Array.prototype.join
JoinWith(toks, sep) ==
  IF Len(toks) = 0 THEN <<>>
  ELSE IF Len(toks) = 1 THEN toks[1]
  ELSE toks[1] \o sep \o JoinWith(Tail(toks), sep)

(***************************************************************************)
(* Regular expressions: a pattern is a sequence of atoms [cs, lo, hi], the *)
(* class cs repeated lo..hi times (hi = -1: unbounded).  MatchEnds is the  *)
(* set of positions at which a match starting at one of P can end, so the  *)
(* test of a pattern does not depend on the order of backtracking.         *)
(***************************************************************************)
Lit(str) == [k \in 1..Len(str) |-> [cs |-> {str[k]}, lo |-> 1, hi |-> 1]]

Rep(cs, lo, hi) == << [cs |-> cs, lo |-> lo, hi |-> hi] >>

Star(cs) == Rep(cs, 0, -1)

Plus(cs) == Rep(cs, 1, -1)

RECURSIVE RunLen(_, _, _)
\* how many characters of s from position p on are in cs
RunLen(cs, s, p) ==
  IF p < Len(s) /\ s[p + 1] \in cs THEN 1 + RunLen(cs, s, p + 1) ELSE 0

AtomEnds(a, s, p) ==
  LET r == RunLen(a.cs, s, p)
      top == IF a.hi < 0 THEN r ELSE Min(a.hi, r)
  IN  {p + n : n \in a.lo..top}

RECURSIVE MatchEnds(_, _, _, _)
MatchEnds(pat, k, s, P) ==
  IF k > Len(pat) \/ P = {} THEN P
  ELSE MatchEnds(pat, k + 1, s, UNION {AtomEnds(pat[k], s, p) : p \in P})

\* /^pat/.test(s)
TestStart(pat, s) == MatchEnds(pat, 1, s, {0}) # {}

\* /^pat$/.test(s)
TestWhole(pat, s) == Len(s) \in MatchEnds(pat, 1, s, {0})

\* /pat/.test(s)
TestAny(pat, s) == \E p \in 0..Len(s) : MatchEnds(pat, 1, s, {p}) # {}

\* \b at position p of s
WordBoundary(s, p) ==
  (p > 0 /\ s[p] \in Alnum \cup {"_"}) # (p < Len(s) /\ s[p + 1] \in Alnum \cup {"_"})

\* /\bpat\b/.test(s)
TestWord(pat, s) ==
  \E p \in 0..Len(s) :
    /\ WordBoundary(s, p)
    /\ \E e \in MatchEnds(pat, 1, s, {p}) : WordBoundary(s, e)

\* the least element of a non-empty set of integers
MinOf(S) == CHOOSE x \in S : \A y \in S : x <= y

\* the 0-based positions of s at or after p at which a match of pat starts
MatchStarts(pat, s, p) == {q \in p..Len(s) : MatchEnds(pat, 1, s, {q}) # {}}

RECURSIVE MatchAll(_, _, _)
\* s.match(/pat/g) for a pattern of fixed length: the matches left to right,
\* the search resuming after each match
MatchAll(pat, s, p) ==
  LET M == MatchStarts(pat, s, p)
  IN  IF M = {} THEN <<>>
      ELSE LET q == MinOf(M)
               e == MinOf(MatchEnds(pat, 1, s, {q}))
           IN  <<Sub(s, q, e)>> \o MatchAll(pat, s, IF e > q THEN e ELSE q + 1)

(***************************************************************************)
(* Values: null, numbers and dates                                         *)
(***************************************************************************)
\* a nullable value: None is null, Some(x) is the value x
None == <<>>

Some(x) == <<x>>

DigitSeq == <<"0", "1", "2", "3", "4", "5", "6", "7", "8", "9">>

RECURSIVE DigitsValue(_, _, _)
\* the value of the digits of s from position p on, up to the first non-digit
DigitsValue(s, p, acc) ==
  IF p < Len(s) /\ s[p + 1] \in Digit
  THEN DigitsValue(s, p + 1, 10 * acc + ((CHOOSE k \in DOMAIN DigitSeq : DigitSeq[k] = s[p + 1]) - 1))
  ELSE acc

\* parseInt(token, 10) of a token that starts with a digit: the leading digits
parseInt(token) == DigitsValue(token, 0, 0)

RECURSIVE Normal(_, _)
\* the decimal m / 10^e without trailing zeros, so that equal numbers are equal
Normal(m, e) == IF e > 0 /\ m % 10 = 0 THEN Normal(m \div 10, e - 1) ELSE [m |-> m, e |-> e]

\* parseFloat(token) of a token that starts with digits [. digits]: the number
\* m / 10^e; what follows the number (a trailing dash) is ignored
parseFloat(token) ==
  LET n == RunLen(Digit, token, 0)
      f == IF n < Len(token) /\ token[n + 1] = "." THEN RunLen(Digit, token, n + 1) ELSE 0
  IN  IF f = 0 THEN Normal(DigitsValue(token, 0, 0), 0)
      ELSE Normal(DigitsValue(Sub(token, 0, n) \o Sub(token, n + 1, n + 1 + f), 0, 0), f)

RECURSIVE Pow10(_)
Pow10(e) == IF e = 0 THEN 1 ELSE 10 * Pow10(e - 1)

\* the number of days from 1970-01-01 to the civil date y-m-d (1 <= m <= 12)
DaysFromCivil(y, m, d) ==
  LET yy  == IF m <= 2 THEN y - 1 ELSE y
      era == yy \div 400
      yoe == yy - era * 400
      mp  == IF m > 2 THEN m - 3 ELSE m + 9
      doy == (153 * mp + 2) \div 5 + d - 1
      doe == yoe * 365 + yoe \div 4 - yoe \div 100 + doy
  IN  era * 146097 + doe - 719468

\* new Date(year, monthIndex, day).getTime() in hours: a month or a day out
\* of range carries over, as Date does
DateHours(year, monthIndex, day) ==
  LET y == year + monthIndex \div 12
      m == monthIndex % 12
  IN  24 * (DaysFromCivil(y, m + 1, 1) + day - 1)

\* /\d{2}\/\d{2}\/\d{2}/
DATE_PATTERN == Rep(Digit, 2, 2) \o Lit(<<"/">>) \o Rep(Digit, 2, 2) \o Lit(<<"/">>) \o Rep(Digit, 2, 2)

\* /\d{2}:\d{2}/
TIME_PATTERN == Rep(Digit, 2, 2) \o Lit(<<":">>) \o Rep(Digit, 2, 2)

parseDate(dateStr) ==
  IF ~TestWhole(DATE_PATTERN, dateStr) THEN None
  ELSE LET month == parseInt(Sub(dateStr, 0, 2))
           day == parseInt(Sub(dateStr, 3, 5))
           year == parseInt(Sub(dateStr, 6, 8))
       IN  Some(DateHours(year + 2000, month - 1, day))

\* the end of the leftmost match of pat in s at or after p, or -1
FirstMatchEnd(pat, s, p) ==
  LET M == MatchStarts(pat, s, p)
  IN  IF M = {} THEN -1 ELSE MinOf(MatchEnds(pat, 1, s, {MinOf(M)}))

extractReportDate(text) ==
  LET pat == Lit(<<"R", "U", "N", " ", "D", "A", "T", "E">>) \o Star({":"} \cup Space) \o DATE_PATTERN
      e == FirstMatchEnd(pat, UpperStr(text), 0)
  IN  IF e < 0 THEN None ELSE parseDate(Sub(text, e - 8, e))

calculateDaysUntilDue(dueDate, reportDate) ==
  LET due == parseDate(dueDate)
  IN  IF due = None THEN 0 ELSE (due[1] - reportDate) \div 24

(***************************************************************************)
(* Line parser: noise patterns, vendor header, token shapes                *)
(***************************************************************************)
SKIP_PATTERNS == <<
    [pat |-> Lit(<<"R", "U", "N", " ", "D", "A", "T", "E">>), whole |-> FALSE],
    [pat |-> Lit(<<"R", "U", "N", " ", "T", "I", "M", "E">>), whole |-> FALSE],
    [pat |-> Lit(<<"I", "N", "V", "O", "R", "D">>), whole |-> FALSE],
    [pat |-> Lit(<<"A", "R", "R", "I", "V", "A", "L", " ", "D", "A", "T", "E">>), whole |-> FALSE],
    [pat |-> Lit(<<"B", "H", "/", "S", "H", "I", "P", " ", "D", "A", "T", "E">>), whole |-> FALSE],
    [pat |-> Lit(<<"P", "H", "O", "N", "E">>) \o Star(Space) \o Lit(<<":">>), whole |-> FALSE],
    [pat |-> Lit(<<"B", "U", "Y", "E", "R">>) \o Star(Space) \o Lit(<<":">>), whole |-> FALSE],
    [pat |-> Lit(<<"F", "R", "E", "I", "G", "H", "T", ":">>), whole |-> FALSE],
    [pat |-> Lit(<<"*">>) \o Star(Space) \o Lit(<<"*">>) \o Star(Space) \o Lit(<<"*">>) \o Star(Space) \o Lit(<<"*">>) \o Star(Space) \o Lit(<<"*">>), whole |-> FALSE],
    [pat |-> Lit(<<"P", "R", "O", "D", "#">>) \o Plus(Space) \o Lit(<<"U", "N", "T">>) \o Plus(Space) \o Lit(<<"S", "I", "Z", "E">>), whole |-> FALSE],
    [pat |-> Plus({"="}), whole |-> TRUE],
    [pat |-> Plus({"-"}), whole |-> TRUE],
    [pat |-> Lit(<<"T", "I", "H", "I", ":">>), whole |-> FALSE],
    [pat |-> Lit(<<"C", "U", "B", "E", ":">>), whole |-> FALSE],
    [pat |-> Lit(<<"O", "P", "E", "N", " ", "P", ".", "O", ".">>), whole |-> FALSE],
    [pat |-> Lit(<<"P", ".", "O", ".">>) \o Plus(Space) \o Lit(<<"D", "U", "E">>), whole |-> FALSE],
    [pat |-> Lit(<<"S", "P", "E", "C", "I", "A", "L", " ", "O", "R", "D", "E", "R", " ", "S", "U", "M", "M", "A", "R", "Y">>), whole |-> FALSE],
    [pat |-> Lit(<<"V", "N", "D">>) \o Plus(Space) \o Plus(Digit) \o Plus(Space) \o Lit(<<"S", "U", "B", "T", "O", "T">>), whole |-> FALSE],
    [pat |-> Lit(<<"C", "A", "S", "E", "S">>) \o Star(Space) \o Lit(<<":">>), whole |-> FALSE],
    [pat |-> Lit(<<"D", "O", "L", "L", "A", "R", "S", ":">>), whole |-> FALSE],
    [pat |-> Lit(<<"A", "V", "E">>) \o Plus(Space) \o Lit(<<"G", "R", "O", "S", "S">>), whole |-> FALSE],
    [pat |-> Star(Space), whole |-> TRUE],
    [pat |-> Lit(<<"P", "A", "G", "E", ":">>), whole |-> FALSE],
    [pat |-> Lit(<<"P", "E", "R", "F", "O", "R", "M", "A", "N", "C", "E", " ", "F", "O", "O", "D", "S", "E", "R", "V", "I", "C", "E">>), whole |-> FALSE],
    [pat |-> Lit(<<"S", "O", "R", "T", " ", "O", "P", "T", "I", "O", "N", ":">>), whole |-> FALSE],
    [pat |-> Lit(<<"M", "I", "N", " ", "O", "R", "D", "E", "R", ":">>), whole |-> FALSE],
    [pat |-> Lit(<<"M", "I", "N", " ", "T", "Y", "P", "E">>) \o Star(Space) \o Lit(<<":">>), whole |-> FALSE],
    [pat |-> Lit(<<"C", "O", "M", "M", "E", "N", "T">>) \o Star(Digit) \o Lit(<<":">>), whole |-> FALSE],
    [pat |-> Lit(<<"T", "E", "R", "M", "S", ":">>), whole |-> FALSE],
    [pat |-> Lit(<<"F", "R", "T", " ", "A", "L", "L", "O", "W", ":">>), whole |-> FALSE],
    [pat |-> Lit(<<"N", "E", "T", " ", "F", "R", "E", "I", "G", "H", "T", ":">>), whole |-> FALSE],
    [pat |-> Lit(<<"O", "N">>) \o Plus(Space) \o Lit(<<"D", "A", "Y", "S">>), whole |-> TRUE],
    [pat |-> Lit(<<"O", "R", "D", "R", " ", "S", "P", "L", "Y">>), whole |-> TRUE],
    [pat |-> Lit(<<"=", "=", "=", "=", "=">>), whole |-> FALSE] >>

shouldSkipLine(line) ==
  LET trimmed == Trim(line)
  IN  IF Len(trimmed) = 0 THEN TRUE
      ELSE \E k \in DOMAIN SKIP_PATTERNS :
             IF SKIP_PATTERNS[k].whole THEN TestWhole(SKIP_PATTERNS[k].pat, UpperStr(trimmed))
             ELSE TestStart(SKIP_PATTERNS[k].pat, UpperStr(trimmed))

\* the tail alternative of VENDOR_PATTERN: (?:\s*\*?\s*Broker:|$) at position p
VendorTailAt(U, p) ==
  \/ p = Len(U)
  \/ MatchEnds(Star(Space) \o Rep({"*"}, 0, 1) \o Star(Space)
               \o Lit(<<"B", "R", "O", "K", "E", "R", ":">>), 1, U, {p}) # {}

RECURSIVE LazyNameEnd(_, _)
\* (.+?): the nearest end p of the name at which the tail alternative matches
LazyNameEnd(U, p) ==
  IF p > Len(U) THEN -1
  ELSE IF VendorTailAt(U, p) THEN p
  ELSE IF U[p + 1] \notin {"\n", "\r"} THEN LazyNameEnd(U, p + 1)
  ELSE -1

\* VENDOR_PATTERN after "Vendor:" on the upper-cased line U: the white space
\* up to the 0-based position p1, then d digits
vendorGroups(line, U, p1, d) ==
  LET w == RunLen(Space, U, p1 + d)
      \* \s+ takes all the white space, and gives one back when nothing follows
      q == IF p1 + d + w = Len(U) THEN p1 + d + w - 1 ELSE p1 + d + w
      e == IF q + 1 <= Len(U) /\ U[q + 1] \notin {"\n", "\r"} THEN LazyNameEnd(U, q + 1) ELSE -1
  IN  IF d = 0 \/ w = 0 \/ q < p1 + d + 1 \/ e < 0 THEN None
      ELSE Some([id |-> Sub(line, p1, p1 + d), name |-> Sub(line, q, e)])

\* VENDOR_PATTERN on the line and its upper-cased form U
vendorMatchOn(line, U) ==
  IF ~TestStart(Lit(<<"V", "E", "N", "D", "O", "R", ":">>), U) THEN None
  ELSE vendorGroups(line, U, SkipSpaceFwd(U, 7), RunLen(Digit, U, SkipSpaceFwd(U, 7)))

\* line.match(VENDOR_PATTERN), /^Vendor:\s*(\d+)\s+(.+?)(?:\s*\*?\s*Broker:|$)/i:
\* None, or the two groups
VendorMatch(line) == vendorMatchOn(line, UpperStr(line))

\* s.replace(/\s*\*\s*$/, '')
StripStar(s) ==
  LET b == SkipSpaceBack(s, Len(s))
  IN  IF b > 0 /\ s[b] = "*" THEN Sub(s, 0, SkipSpaceBack(s, b - 1)) ELSE s

\* the vendor parseVendorLine builds from a match of VENDOR_PATTERN
vendorOfMatch(match) ==
  IF match = None THEN None
  ELSE Some([id |-> Trim(match[1].id), name |-> Trim(StripStar(Trim(match[1].name)))])

parseVendorLine(line) == vendorOfMatch(VendorMatch(line))

isProductNumber(token) == TestWhole(Rep(Alnum, 2, 8), token)

\* token.replace(/-$/, '')
StripDash(token) ==
  IF Len(token) > 0 /\ token[Len(token)] = "-" THEN Sub(token, 0, Len(token) - 1) ELSE token

\* /^\d+\.\d+$/ after one trailing dash is removed
isFloat(token) == TestWhole(Plus(Digit) \o Lit(<<".">>) \o Plus(Digit), StripDash(token))

\* /^\d+$/
isInteger(token) == TestWhole(Plus(Digit), token)

\* /^[A-Z]{1,3}\d{3,5}$|^COOLER$|^FREEZE$|^DRY$/i
isSlotCode(token) ==
  LET U == UpperStr(token)
  IN  \/ TestWhole(Rep(Upper, 1, 3) \o Rep(Digit, 3, 5), U)
      \/ U = <<"C", "O", "O", "L", "E", "R">>
      \/ U = <<"F", "R", "E", "E", "Z", "E">>
      \/ U = <<"D", "R", "Y">>

(***************************************************************************)
(* Tail field recoverer (three tiers)                                      *)
(***************************************************************************)
RECURSIVE NumericRun(_, _)
\* the numeric tokens collected right to left from the 1-based position p,
\* in source order, up to the first token that is not numeric
NumericRun(tokens, p) ==
  IF p >= 1 /\ (isInteger(tokens[p]) \/ isFloat(tokens[p]))
  THEN Append(NumericRun(tokens, p - 1), tokens[p])
  ELSE <<>>

\* tierOf that lets the column count decide alone
tierOfColumnsOnly(confidence, numCols) ==
  IF numCols >= 7 THEN "high" ELSE IF numCols >= 5 THEN "medium" ELSE "low"

\* the confidence the column count leaves, given the confidence the four
\* fixed fields left
tierOf(confidence, numCols) ==
  IF numCols >= 7 THEN (IF confidence # "low" THEN "high" ELSE confidence)
  ELSE IF numCols >= 5 THEN (IF confidence # "low" THEN "medium" ELSE confidence)
  ELSE "low"

\* runFields that takes the days of supply from the leftmost column
runFieldsLeftmost(run) ==
  LET numCols == Len(run)
  IN  [daysSply |-> IF numCols >= 1 THEN Some(parseFloat(run[1])) ELSE None,
       onOrder  |-> IF numCols >= 9 THEN Some(parseInt(run[numCols - 1])) ELSE None,
       avail    |-> IF numCols >= 9 THEN Some(parseInt(run[numCols - 2]))
                    ELSE IF numCols >= 2 THEN Some(parseInt(run[numCols - 1]))
                    ELSE None,
       avg      |-> IF numCols >= 9 THEN Some(parseInt(run[numCols - 3]))
                    ELSE IF numCols = 8 THEN Some(parseInt(run[numCols - 2]))
                    ELSE IF numCols >= 7 THEN None
                    ELSE IF numCols >= 5 THEN None
                    ELSE IF numCols >= 3 THEN Some(parseInt(run[numCols - 2]))
                    ELSE None,
       consumed |-> IF numCols >= 9 THEN 4
                    ELSE IF numCols = 8 THEN 3
                    ELSE IF numCols >= 5 THEN 2
                    ELSE Min(numCols, 3)]

\* runFields that reads an on-order column from 8 columns on
runFieldsOrdrFrom8(run) ==
  LET numCols == Len(run)
  IN  [daysSply |-> IF numCols >= 1 THEN Some(parseFloat(run[numCols])) ELSE None,
       onOrder  |-> IF numCols >= 8 THEN Some(parseInt(run[numCols - 1])) ELSE None,
       avail    |-> IF numCols >= 8 THEN Some(parseInt(run[numCols - 2]))
                    ELSE IF numCols >= 2 THEN Some(parseInt(run[numCols - 1]))
                    ELSE None,
       avg      |-> IF numCols >= 8 THEN Some(parseInt(run[numCols - 3]))
                    ELSE IF numCols >= 7 THEN None
                    ELSE IF numCols >= 5 THEN None
                    ELSE IF numCols >= 3 THEN Some(parseInt(run[numCols - 2]))
                    ELSE None,
       consumed |-> IF numCols >= 8 THEN 4
                    ELSE IF numCols >= 5 THEN 2
                    ELSE Min(numCols, 3)]

\* the fields read off the numeric run
runFields(run) ==
  LET numCols == Len(run)
  IN  [daysSply |-> IF numCols >= 1 THEN Some(parseFloat(run[numCols])) ELSE None,
       onOrder  |-> IF numCols >= 9 THEN Some(parseInt(run[numCols - 1])) ELSE None,
       avail    |-> IF numCols >= 9 THEN Some(parseInt(run[numCols - 2]))
                    ELSE IF numCols >= 2 THEN Some(parseInt(run[numCols - 1]))
                    ELSE None,
       avg      |-> IF numCols >= 9 THEN Some(parseInt(run[numCols - 3]))
                    ELSE IF numCols = 8 THEN Some(parseInt(run[numCols - 2]))
                    ELSE IF numCols >= 7 THEN None
                    ELSE IF numCols >= 5 THEN None
                    ELSE IF numCols >= 3 THEN Some(parseInt(run[numCols - 2]))
                    ELSE None,
       consumed |-> IF numCols >= 9 THEN 4
                    ELSE IF numCols = 8 THEN 3
                    ELSE IF numCols >= 5 THEN 2
                    ELSE Min(numCols, 3)]

\* the note the column count adds
runNotes(numCols, isSpecialOrder) ==
  IF numCols >= 7 THEN (IF isSpecialOrder THEN <<"Special Order item with good data">> ELSE <<>>)
  ELSE IF numCols >= 5 THEN <<"numeric columns found - medium confidence">>
  ELSE <<"Only few numeric columns found (need 5+ for medium, 7+ for high)">>

\* the locals of parseTail before the fixed fields are read; idx is the
\* 1-based position of the token tokens[idx] of the code
tailStart(tokens) ==
  [idx |-> Len(tokens), confidence |-> "high", notes |-> <<>>,
   ip |-> None, slot |-> None, mrkCst |-> None, lndCst |-> None, consumedCount |-> 0]

\* tailIp that applies the sign of a trailing dash
tailIpSigned(tokens, st) ==
  IF isFloat(StripDash(tokens[st.idx]))
  THEN [st EXCEPT !.ip = Some(IF StripDash(tokens[st.idx]) # tokens[st.idx]
                              THEN [parseFloat(StripDash(tokens[st.idx])) EXCEPT !.m = -@]
                              ELSE parseFloat(StripDash(tokens[st.idx]))),
                  !.consumedCount = @ + 1, !.idx = @ - 1]
  ELSE [st EXCEPT !.notes = Append(@, "Expected IP as float"), !.confidence = "low"]

\* IP, the rightmost token
tailIp(tokens, st) ==
  IF isFloat(StripDash(tokens[st.idx]))
  THEN [st EXCEPT !.ip = Some(parseFloat(StripDash(tokens[st.idx]))),
                  !.consumedCount = @ + 1, !.idx = @ - 1]
  ELSE [st EXCEPT !.notes = Append(@, "Expected IP as float"), !.confidence = "low"]

\* the slot, read when a token is left
tailSlot(tokens, st) ==
  IF st.idx < 1 THEN st
  ELSE IF isSlotCode(tokens[st.idx]) \/ TestWhole(Plus(Alnum), tokens[st.idx])
  THEN [st EXCEPT !.slot = Some(tokens[st.idx]), !.consumedCount = @ + 1, !.idx = @ - 1]
  ELSE [st EXCEPT !.notes = Append(@, "Expected Slot code"), !.confidence = "low"]

\* the market cost, read when a token is left
tailMrkCst(tokens, st) ==
  IF st.idx < 1 THEN st
  ELSE IF isFloat(tokens[st.idx])
  THEN [st EXCEPT !.mrkCst = Some(parseFloat(tokens[st.idx])),
                  !.consumedCount = @ + 1, !.idx = @ - 1]
  ELSE [st EXCEPT !.notes = Append(@, "Expected MrkCst as float"), !.confidence = "low"]

\* the landed cost, read when a token is left
tailLndCst(tokens, st) ==
  IF st.idx < 1 THEN st
  ELSE IF isFloat(tokens[st.idx])
  THEN [st EXCEPT !.lndCst = Some(parseFloat(tokens[st.idx])),
                  !.consumedCount = @ + 1, !.idx = @ - 1]
  ELSE [st EXCEPT !.notes = Append(@, "Expected LndCst as float"), !.confidence = "low"]

\* the four fixed fields, read right to left
tailFixed(tokens) ==
  tailLndCst(tokens, tailMrkCst(tokens, tailSlot(tokens, tailIp(tokens, tailStart(tokens)))))

\* tailResult under the earlier policy: a special order is low whatever the run
tailResultStrict(st, run, f, isSpecialOrder) ==
  [ip |-> st.ip, slot |-> st.slot, mrkCst |-> st.mrkCst, lndCst |-> st.lndCst,
   daysSply |-> f.daysSply, onOrder |-> f.onOrder, avail |-> f.avail, avg |-> f.avg,
   confidence |-> IF isSpecialOrder THEN "low" ELSE tierOf(st.confidence, Len(run)),
   numericColumns |-> Len(run),
   notes |-> st.notes \o runNotes(Len(run), isSpecialOrder),
   consumedCount |-> st.consumedCount + f.consumed]

\* the result of parseTail from the fixed fields st, the numeric run and the
\* fields f read off the run
tailResult(st, run, f, isSpecialOrder) ==
  [ip |-> st.ip, slot |-> st.slot, mrkCst |-> st.mrkCst, lndCst |-> st.lndCst,
   daysSply |-> f.daysSply, onOrder |-> f.onOrder, avail |-> f.avail, avg |-> f.avg,
   confidence |-> tierOf(st.confidence, Len(run)),
   numericColumns |-> Len(run),
   notes |-> st.notes \o runNotes(Len(run), isSpecialOrder),
   consumedCount |-> st.consumedCount + f.consumed]

\* the numeric run to the left of the fixed fields st, and its columns
tailRun(tokens, st, isSpecialOrder) ==
  tailResult(st, NumericRun(tokens, st.idx), runFields(NumericRun(tokens, st.idx)),
             isSpecialOrder)

parseTail(tokens, isSpecialOrder) ==
  IF Len(tokens) < 4
  THEN [ip |-> None, slot |-> None, mrkCst |-> None, lndCst |-> None,
        daysSply |-> None, onOrder |-> None, avail |-> None, avg |-> None,
        confidence |-> "low", numericColumns |-> 0,
        notes |-> <<"Too few tokens for tail parsing">>, consumedCount |-> 0]
  ELSE tailRun(tokens, tailFixed(tokens), isSpecialOrder)

(***************************************************************************)
(* Front field recoverer and item lines                                    *)
(***************************************************************************)
UNIT_CODES == { <<"C", "S">>, <<"E", "A">>, <<"B", "X">>, <<"P", "K">>,
                <<"B", "G">>, <<"D", "Z">>, <<"C", "T">> }

\* the size shapes of parseFront
isSizeToken(token) ==
  LET U  == UpperStr(token)
      DD == Digit \cup {"."}
  IN  \/ TestWhole(Plus(Digit) \o Lit(<<"/">>) \o Plus(DD), U)
      \/ TestWhole(Plus(DD) \o Lit(<<"/">>) \o Plus(DD), U)
      \/ U = <<"O", "Z">>
      \/ U = <<"L", "B">>
      \/ U = <<"G", "A", "L">>
      \/ TestWhole(Plus(Digit) \o Lit(<<"/">>) \o Plus(Digit) \o Star(Space) \o Lit(<<"O", "Z">>), U)
      \/ TestWhole(Plus(DD) \o Lit(<<"O", "Z">>), U)

RECURSIVE SizeEnd(_, _)
\* the 1-based position of the first token at or after p that is no size token
SizeEnd(tokens, p) ==
  IF p <= Len(tokens) /\ isSizeToken(tokens[p]) THEN SizeEnd(tokens, p + 1) ELSE p

\* how many of the tokens at 1-based positions a..b are numeric
NumericCount(tokens, a, b) ==
  Cardinality({j \in a..b : isInteger(tokens[j]) \/ isFloat(tokens[j])})

\* isYtdStart that looks at the 4 tokens after the integer and wants 2
\* numeric tokens among them
isYtdStartNextFour(tokens, p) ==
  /\ isInteger(tokens[p])
  /\ NumericCount(tokens, p + 1, Min(p + 4, Len(tokens))) >= 2

\* does the description stop at the 1-based position p: a bare integer with
\* at least 2 numeric tokens in the window of 4 that starts at it
isYtdStart(tokens, p) ==
  /\ isInteger(tokens[p])
  /\ NumericCount(tokens, p, Min(p + 3, Len(tokens))) >= 2

RECURSIVE DescEnd(_, _)
\* the 1-based position at which the description loop stops
DescEnd(tokens, p) ==
  IF p <= Len(tokens) /\ ~isYtdStart(tokens, p) THEN DescEnd(tokens, p + 1) ELSE p

\* the fields of parseFront, the tokens after the unit starting at the
\* 1-based position p2, the size tokens ending before p3, and the
\* description ending before p5
frontFields(tokens, specialOrder, hasUnit, p2, p3, p5) ==
  [prodNo |-> IF Len(tokens) >= 1 THEN tokens[1] ELSE <<>>,
   specialOrder |-> specialOrder,
   unit |-> IF specialOrder \/ hasUnit THEN tokens[2] ELSE <<>>,
   size |-> JoinWith(SubSeq(tokens, p2, p3 - 1), <<" ">>),
   brand |-> IF p3 <= Len(tokens) THEN tokens[p3] ELSE <<>>,
   description |-> JoinWith(SubSeq(tokens, IF p3 <= Len(tokens) THEN p3 + 1 ELSE p3, p5 - 1),
                            <<" ">>),
   ytd |-> IF p5 <= Len(tokens) THEN Some(parseInt(tokens[p5])) ELSE None]

\* parseFront after the size tokens: the brand, then the description
frontAfterSize(tokens, specialOrder, hasUnit, p2, p3) ==
  frontFields(tokens, specialOrder, hasUnit, p2, p3,
              DescEnd(tokens, IF p3 <= Len(tokens) THEN p3 + 1 ELSE p3))

\* parseFront after the product number and the unit
frontAfterUnit(tokens, specialOrder, hasUnit) ==
  LET p2 == IF Len(tokens) >= 1 THEN (IF specialOrder \/ hasUnit THEN 3 ELSE 2) ELSE 1
  IN  frontAfterSize(tokens, specialOrder, hasUnit, p2, SizeEnd(tokens, p2))

parseFront(tokens) ==
  frontAfterUnit(tokens,
                 Len(tokens) >= 2 /\ tokens[2] = <<"S", "/", "O">>,
                 Len(tokens) >= 2 /\ tokens[2] # <<"S", "/", "O">>
                   /\ UpperStr(tokens[2]) \in UNIT_CODES)

\* how many of the last 6 tokens are decimals
floatCount(tokens) ==
  Cardinality({k \in (IF Len(tokens) > 6 THEN Len(tokens) - 5 ELSE 1)..Len(tokens) :
                 isFloat(tokens[k]) \/ isFloat(StripDash(tokens[k]))})

\* isItemLine on the tokens of a line that is not blank
isItemTokens(tokens) ==
  IF Len(tokens) < 8 THEN FALSE
  ELSE IF ~isProductNumber(tokens[1]) THEN FALSE
  ELSE floatCount(tokens) >= 2

isItemLine(line) ==
  IF Len(Trim(line)) = 0 THEN FALSE ELSE isItemTokens(SplitWs(Trim(line)))

\* itemConfidence without the days-of-supply check, leaving a record high
itemConfidenceHigh(daysSply, confidence) == "high"

\* the check of parseItemLine after the record is built: no days of supply
\* forces the confidence to low
itemConfidence(daysSply, confidence) == IF daysSply = None THEN "low" ELSE confidence

\* the record parseItemLine builds from the front and the tail fields
itemRecord(trimmed, vendor, front, tail) ==
  [vendorId |-> vendor.id, vendorName |-> vendor.name,
   prodNo |-> front.prodNo, specialOrder |-> front.specialOrder,
   unit |-> front.unit, size |-> front.size, brand |-> front.brand,
   description |-> front.description, ytd |-> front.ytd,
   avg |-> tail.avg, avail |-> tail.avail, onOrder |-> tail.onOrder,
   daysSply |-> tail.daysSply, lndCst |-> tail.lndCst, mrkCst |-> tail.mrkCst,
   slot |-> tail.slot, ip |-> tail.ip,
   confidence |-> itemConfidence(tail.daysSply, tail.confidence),
   numericColumns |-> tail.numericColumns,
   rawLine |-> trimmed,
   parseNotes |-> IF tail.daysSply = None
                  THEN Append(tail.notes, "DaysSply is null - needs review")
                  ELSE tail.notes]

\* parseItemLine after parseFront: parseTail, then the record
itemOfFront(trimmed, tokens, vendor, front) ==
  itemRecord(trimmed, vendor, front, parseTail(tokens, front.specialOrder))

parseItemLine(line, vendor) ==
  itemOfFront(Trim(line), SplitWs(Trim(line)), vendor, parseFront(SplitWs(Trim(line))))

(***************************************************************************)
(* lineParser.ts: the two-tier tail field recoverer of the server          *)
(***************************************************************************)
\* the locals of parseTail of lineParser.ts after the four fixed fields st,
\* which it reads as parseTail above does
lineParser_tailStart(st) ==
  [idx |-> st.idx, confidence |-> st.confidence, notes |-> st.notes,
   consumedCount |-> st.consumedCount,
   daysSply |-> None, onOrder |-> None, avail |-> None]

\* lineParser_tailSply that reads the days of supply from a float only
lineParser_tailSplyFloatOnly(tokens, r) ==
  IF r.idx < 1 THEN r
  ELSE IF isFloat(tokens[r.idx])
  THEN [r EXCEPT !.daysSply = Some(parseFloat(tokens[r.idx])),
                 !.consumedCount = @ + 1, !.idx = @ - 1]
  ELSE [r EXCEPT !.notes = Append(@, "Expected DaysSply as number"), !.confidence = "low"]

\* the days of supply: the token before the landed cost, an integer or a
\* float, read when a token is left
lineParser_tailSply(tokens, r) ==
  IF r.idx < 1 THEN r
  ELSE IF isFloat(tokens[r.idx]) \/ isInteger(tokens[r.idx])
  THEN [r EXCEPT !.daysSply = Some(parseFloat(tokens[r.idx])),
                 !.consumedCount = @ + 1, !.idx = @ - 1]
  ELSE [r EXCEPT !.notes = Append(@, "Expected DaysSply as number"), !.confidence = "low"]

\* the cases on order: an integer, read when a token is left
lineParser_tailOrdr(tokens, r) ==
  IF r.idx < 1 THEN r
  ELSE IF isInteger(tokens[r.idx])
  THEN [r EXCEPT !.onOrder = Some(parseInt(tokens[r.idx])),
                 !.consumedCount = @ + 1, !.idx = @ - 1]
  ELSE [r EXCEPT !.notes = Append(@, "Expected Ordr as integer"), !.confidence = "low"]

\* the cases available: an integer, read when a token is left
lineParser_tailAvail(tokens, r) ==
  IF r.idx < 1 THEN r
  ELSE IF isInteger(tokens[r.idx])
  THEN [r EXCEPT !.avail = Some(parseInt(tokens[r.idx])),
                 !.consumedCount = @ + 1, !.idx = @ - 1]
  ELSE [r EXCEPT !.notes = Append(@, "Expected Avail as integer"), !.confidence = "low"]

\* the result of parseTail of lineParser.ts from the fixed fields st and the
\* locals r at the end
lineParser_tailResult(st, r) ==
  [ip |-> st.ip, slot |-> st.slot, mrkCst |-> st.mrkCst, lndCst |-> st.lndCst,
   daysSply |-> r.daysSply, onOrder |-> r.onOrder, avail |-> r.avail,
   confidence |-> r.confidence, notes |-> r.notes, consumedCount |-> r.consumedCount]

\* the three columns to the left of the fixed fields st
lineParser_tailColumns(tokens, st) ==
  lineParser_tailResult(st,
    lineParser_tailAvail(tokens,
      lineParser_tailOrdr(tokens,
        lineParser_tailSply(tokens, lineParser_tailStart(st)))))

\* parseTail of lineParser.ts
lineParser_parseTail(tokens) ==
  IF Len(tokens) < 4
  THEN [ip |-> None, slot |-> None, mrkCst |-> None, lndCst |-> None,
        daysSply |-> None, onOrder |-> None, avail |-> None,
        confidence |-> "low",
        notes |-> <<"Too few tokens for tail parsing">>, consumedCount |-> 0]
  ELSE lineParser_tailColumns(tokens, tailFixed(tokens))

\* the record parseItemLine of lineParser.ts builds; the check for missing
\* days of supply is the one of parseItemLine above
lineParser_itemRecord(trimmed, vendor, front, tail) ==
  [vendorId |-> vendor.id, vendorName |-> vendor.name,
   prodNo |-> front.prodNo, specialOrder |-> front.specialOrder,
   unit |-> front.unit, size |-> front.size, brand |-> front.brand,
   description |-> front.description, ytd |-> front.ytd,
   avail |-> tail.avail, onOrder |-> tail.onOrder,
   daysSply |-> tail.daysSply, lndCst |-> tail.lndCst, mrkCst |-> tail.mrkCst,
   slot |-> tail.slot, ip |-> tail.ip,
   confidence |-> itemConfidence(tail.daysSply, tail.confidence),
   rawLine |-> trimmed,
   parseNotes |-> IF tail.daysSply = None
                  THEN Append(tail.notes, "DaysSply is null - needs review")
                  ELSE tail.notes]

\* parseItemLine of lineParser.ts: parseTail, parseFront (the same as above),
\* then the record
lineParser_parseItemLine(line, vendor) ==
  lineParser_itemRecord(Trim(line), vendor, parseFront(SplitWs(Trim(line))),
                        lineParser_parseTail(SplitWs(Trim(line))))

(***************************************************************************)
(* Purchase-order and special-order recoverer                              *)
(***************************************************************************)
URGENT_WINDOW_DAYS == 5

\* s.includes(sub)
Includes(s, sub) == TestAny(Lit(sub), s)

\* isPODataLine on the trimmed line and its tokens
poDataTokens(trimmed, tokens) ==
  IF ~TestStart(Rep(Digit, 5, 5) \o Rep(Space, 1, 1), trimmed) THEN FALSE
  ELSE IF Len(tokens) < 4 THEN FALSE
  ELSE IF ~TestWhole(Rep(Digit, 5, 5), tokens[1]) THEN FALSE
  ELSE IF ~TestWhole(DATE_PATTERN, tokens[2]) THEN FALSE
  ELSE IF ~TestWhole(Rep(Digit, 1, 5), tokens[3]) THEN FALSE
  ELSE IF TestStart(Lit(<<"C", "O", "N", "F", ":">>), UpperStr(tokens[4])) THEN TRUE
  ELSE IF Includes(UpperStr(JoinWith(SubSeq(tokens, 4, Len(tokens)), <<" ">>)),
                   <<"C", "O", "N", "F", ":">>) THEN TRUE
  ELSE IF Len(MatchAll(DATE_PATTERN, trimmed, 0)) >= 3 THEN TRUE
  ELSE IF Len(MatchAll(TIME_PATTERN, trimmed, 0)) > 0 THEN TRUE
  ELSE FALSE

isPODataLine(line) == poDataTokens(Trim(line), SplitWs(Trim(line)))

\* the status of a PO line: restOfLine.match(/^(Conf:[^\s]+|Pending|Received)/),
\* or else the fourth token
poStatus(tokens, restOfLine) ==
  LET E == MatchEnds(Lit(<<"C", "o", "n", "f", ":">>) \o Plus(AnyChar \ Space), 1, restOfLine, {0})
  IN  IF E # {} THEN Sub(restOfLine, 0, CHOOSE e \in E : \A x \in E : x <= e)
      ELSE IF TestStart(Lit(<<"P", "e", "n", "d", "i", "n", "g">>), restOfLine) THEN <<"P", "e", "n", "d", "i", "n", "g">>
      ELSE IF TestStart(Lit(<<"R", "e", "c", "e", "i", "v", "e", "d">>), restOfLine) THEN <<"R", "e", "c", "e", "i", "v", "e", "d">>
      ELSE tokens[4]

\* the EDI flag from the upper-cased status and rest of line
ediOf(hasEdi, STATUS, REST) ==
  LET first == IF hasEdi THEN Some(TRUE)
               ELSE IF TestWord(Lit(<<"Y", "E", "S">>), REST) THEN Some(TRUE)
               ELSE IF TestWord(Lit(<<"N", "O">>), REST) THEN Some(FALSE)
               ELSE None
  IN  IF first = None /\ TestStart(Lit(<<"C", "O", "N", "F", ":">>), STATUS) /\ ~hasEdi
      THEN Some(FALSE)
      ELSE first

\* the EDI flag of a PO line: Some(TRUE), Some(FALSE) or None (unknown)
poEdi(status, restOfLine) ==
  ediOf(Includes(UpperStr(status), <<"E", "D", "I">>), UpperStr(status), UpperStr(restOfLine))

\* poUrgency without the urgency window: the reasons accumulate on any due date
poUrgencyUngated(daysUntilDue, edi, appointment) ==
  LET noEdi == edi # Some(TRUE)
      noAppointment == appointment = None
  IN  [isUrgent |-> noEdi \/ noAppointment,
       urgentReasons |-> (IF noEdi THEN <<"No EDI confirmation">> ELSE <<>>)
                         \o (IF noAppointment THEN <<"No appointment">> ELSE <<>>)]

\* poUrgency with the two reasons pushed in the other order
poUrgencySwapped(daysUntilDue, edi, appointment) ==
  LET inWindow == daysUntilDue <= URGENT_WINDOW_DAYS
      noEdi == inWindow /\ edi # Some(TRUE)
      noAppointment == inWindow /\ appointment = None
  IN  [isUrgent |-> noEdi \/ noAppointment,
       urgentReasons |-> (IF noAppointment THEN <<"No appointment">> ELSE <<>>)
                         \o (IF noEdi THEN <<"No EDI confirmation">> ELSE <<>>)]

\* the urgency of a PO: inside the window, a reason for each of a missing EDI
\* confirmation and a missing appointment, in this order
poUrgency(daysUntilDue, edi, appointment) ==
  LET inWindow == daysUntilDue <= URGENT_WINDOW_DAYS
      noEdi == inWindow /\ edi # Some(TRUE)
      noAppointment == inWindow /\ appointment = None
  IN  [isUrgent |-> noEdi \/ noAppointment,
       urgentReasons |-> (IF noEdi THEN <<"No EDI confirmation">> ELSE <<>>)
                         \o (IF noAppointment THEN <<"No appointment">> ELSE <<>>)]

\* the record parsePOLine builds
poRecord(tokens, vendor, status, dates, edi, appointment, daysUntilDue) ==
  LET urgency == poUrgency(daysUntilDue, edi, appointment)
  IN  [poNumber |-> tokens[1], vendorId |-> vendor.id, vendorName |-> vendor.name,
       dueDate |-> tokens[2], totalCases |-> parseInt(tokens[3]),
       status |-> status, edi |-> edi, appointment |-> appointment,
       pickUp |-> None,
       entered |-> IF Len(dates) > 0 THEN Some(dates[Len(dates)]) ELSE None,
       daysUntilDue |-> daysUntilDue,
       isUrgent |-> urgency.isUrgent, urgentReasons |-> urgency.urgentReasons]

\* parsePOLine from the status, the dates and the times of the rest of the line
poOfStatus(tokens, vendor, reportDate, restOfLine, status, dates, times) ==
  poRecord(tokens, vendor, status, dates,
           poEdi(status, restOfLine),
           IF Len(dates) > 0 /\ Len(times) > 0
           THEN Some(dates[1] \o <<" ">> \o times[1]) ELSE None,
           calculateDaysUntilDue(tokens[2], reportDate))

\* parsePOLine from the rest of the line, tokens.slice(3).join(' ')
poOfRest(tokens, vendor, reportDate, restOfLine) ==
  poOfStatus(tokens, vendor, reportDate, restOfLine, poStatus(tokens, restOfLine),
             MatchAll(DATE_PATTERN, restOfLine, 0), MatchAll(TIME_PATTERN, restOfLine, 0))

\* parsePOLine on the tokens of the trimmed line
poOfTokens(tokens, vendor, reportDate) ==
  IF Len(tokens) < 4 THEN None
  ELSE IF ~TestWhole(Rep(Digit, 5, 5), tokens[1]) THEN None
  ELSE IF ~TestWhole(DATE_PATTERN, tokens[2]) THEN None
  ELSE IF ~TestWhole(Plus(Digit), tokens[3]) THEN None
  ELSE Some(poOfRest(tokens, vendor, reportDate,
                     JoinWith(SubSeq(tokens, 4, Len(tokens)), <<" ">>)))

parsePOLine(line, vendor, reportDate) == poOfTokens(SplitWs(Trim(line)), vendor, reportDate)

\* /Special Order summary for this vendor/i
isSpecialOrderHeader(line) ==
  Includes(UpperStr(line), <<"S", "P", "E", "C", "I", "A", "L", " ", "O", "R", "D", "E", "R", " ", "S", "U", "M", "M", "A", "R", "Y", " ", "F", "O", "R", " ", "T", "H", "I", "S", " ", "V", "E", "N", "D", "O", "R">>)

RECURSIVE SoDescEnd(_, _)
\* the 1-based position at which the description of a special-order line
\* stops: a date, or a 4-digit number after the third token
SoDescEnd(tokens, p) ==
  IF p > Len(tokens) THEN p
  ELSE IF TestWhole(DATE_PATTERN, tokens[p]) THEN p
  ELSE IF TestWhole(Rep(Digit, 4, 4), tokens[p]) /\ p - 1 > 2 THEN p
  ELSE SoDescEnd(tokens, p + 1)

\* the leftmost match of /\bpat\b/ in s, as Some(text), or None
FirstWordMatch(pat, s) ==
  LET M == {q \in 0..Len(s) :
              /\ WordBoundary(s, q)
              /\ \E e \in MatchEnds(pat, 1, s, {q}) : WordBoundary(s, e)}
  IN  IF M = {} THEN None
      ELSE LET q == MinOf(M)
           IN  Some(Sub(s, q, MinOf({e \in MatchEnds(pat, 1, s, {q}) : WordBoundary(s, e)})))

\* the record parseSpecialOrderLine builds
soRecord(trimmed, tokens, vendor, dates) ==
  [prodNo |-> tokens[1],
   description |-> JoinWith(SubSeq(tokens, 2, SoDescEnd(tokens, 2) - 1), <<" ">>),
   custNo |-> <<>>, customerName |-> <<>>,
   dateEntered |-> dates[1],
   dateDoq |-> IF Len(dates) > 1 THEN Some(dates[2]) ELSE None,
   dateDue |-> IF Len(dates) > 2 THEN Some(dates[3]) ELSE None,
   poNumber |-> FirstWordMatch(Rep(Digit, 5, 5), trimmed),
   qtyOrdered |-> 0, onHand |-> 0,
   status |-> IF Includes(trimmed, <<"*", "D", "O", "Q", "*">>) THEN "*DOQ*"
              ELSE IF TestWord(Lit(<<"R", "E", "A", "D", "Y">>), UpperStr(trimmed)) THEN "Ready"
              ELSE "Order",
   vendorId |-> vendor.id, vendorName |-> vendor.name]

\* parseSpecialOrderLine on the trimmed line, its tokens and its dates
soOfTokens(trimmed, tokens, vendor, dates) ==
  IF Len(tokens) < 6 THEN None
  ELSE IF ~TestWhole(Rep(Alnum, 2, 8), tokens[1]) THEN None
  ELSE IF Len(dates) = 0 THEN None
  ELSE Some(soRecord(trimmed, tokens, vendor, dates))

parseSpecialOrderLine(line, vendor) ==
  soOfTokens(Trim(line), SplitWs(Trim(line)), vendor, MatchAll(DATE_PATTERN, Trim(line), 0))

(***************************************************************************)
(* The extracted text: a sequence of lines of the report.  A text is the   *)
(* sequence of the numbers of its lines in Catalog; text.split('\n') gives *)
(* the lines back.                                                         *)
(***************************************************************************)
MaxLines == 3

MaxPOLines == 4

Catalog == <<
  \* Vendor: 00001740 FRITO LAY * Broker:
  <<"V", "e", "n", "d", "o", "r", ":", " ", "0", "0", "0", "0", "1", "7", "4", "0", " ", "F", "R", "I", "T", "O", " ", "L", "A", "Y", " ", "*", " ", "B", "r", "o", "k", "e", "r", ":">>,
  \* Vendor: 00002222 ACME
  <<"V", "e", "n", "d", "o", "r", ":", " ", "0", "0", "0", "0", "2", "2", "2", "2", " ", "A", "C", "M", "E">>,
  \* 54406 CS 72/1 OZ DORITO CHIP TORTILLA NACHO CHSE 665 39 29 4 1 24 46 48 9 28.79 31.05 DL3400 4.4
  <<"5", "4", "4", "0", "6", " ", "C", "S", " ", "7", "2", "/", "1", " ", "O", "Z", " ", "D", "O", "R", "I", "T", "O", " ", "C", "H", "I", "P", " ", "T", "O", "R", "T", "I", "L", "L", "A", " ", "N", "A", "C", "H", "O", " ", "C", "H", "S", "E", " ", "6", "6", "5", " ", "3", "9", " ", "2", "9", " ", "4", " ", "1", " ", "2", "4", " ", "4", "6", " ", "4", "8", " ", "9", " ", "2", "8", ".", "7", "9", " ", "3", "1", ".", "0", "5", " ", "D", "L", "3", "4", "0", "0", " ", "4", ".", "4">>,
  \* 60649 01/02/26 955 Conf:EDI Costs Yes 01/02/26 06:00 12/23/25
  <<"6", "0", "6", "4", "9", " ", "0", "1", "/", "0", "2", "/", "2", "6", " ", "9", "5", "5", " ", "C", "o", "n", "f", ":", "E", "D", "I", " ", "C", "o", "s", "t", "s", " ", "Y", "e", "s", " ", "0", "1", "/", "0", "2", "/", "2", "6", " ", "0", "6", ":", "0", "0", " ", "1", "2", "/", "2", "3", "/", "2", "5">>,
  \* 60649 12/31/25 40 Pending 12/20/25 12/21/25
  <<"6", "0", "6", "4", "9", " ", "1", "2", "/", "3", "1", "/", "2", "5", " ", "4", "0", " ", "P", "e", "n", "d", "i", "n", "g", " ", "1", "2", "/", "2", "0", "/", "2", "5", " ", "1", "2", "/", "2", "1", "/", "2", "5">>,
  \* Special Order summary for this vendor
  <<"S", "p", "e", "c", "i", "a", "l", " ", "O", "r", "d", "e", "r", " ", "s", "u", "m", "m", "a", "r", "y", " ", "f", "o", "r", " ", "t", "h", "i", "s", " ", "v", "e", "n", "d", "o", "r">>,
  \* TF164 CHIP POTATO JALAPENO 1415 BILL 12/11/25 12/22/25 01/06/26 60468 1 0 *DOQ* Bill
  <<"T", "F", "1", "6", "4", " ", "C", "H", "I", "P", " ", "P", "O", "T", "A", "T", "O", " ", "J", "A", "L", "A", "P", "E", "N", "O", " ", "1", "4", "1", "5", " ", "B", "I", "L", "L", " ", "1", "2", "/", "1", "1", "/", "2", "5", " ", "1", "2", "/", "2", "2", "/", "2", "5", " ", "0", "1", "/", "0", "6", "/", "2", "6", " ", "6", "0", "4", "6", "8", " ", "1", " ", "0", " ", "*", "D", "O", "Q", "*", " ", "B", "i", "l", "l">>,
  \* RUN DATE: 12/29/25
  <<"R", "U", "N", " ", "D", "A", "T", "E", ":", " ", "1", "2", "/", "2", "9", "/", "2", "5">>,
  \* Prod# Unt Size Brand Description
  <<"P", "r", "o", "d", "#", " ", "U", "n", "t", " ", "S", "i", "z", "e", " ", "B", "r", "a", "n", "d", " ", "D", "e", "s", "c", "r", "i", "p", "t", "i", "o", "n">>,
  \* 60650 01/03/26 120 Conf:EDI 12/23/25
  <<"6", "0", "6", "5", "0", " ", "0", "1", "/", "0", "3", "/", "2", "6", " ", "1", "2", "0", " ", "C", "o", "n", "f", ":", "E", "D", "I", " ", "1", "2", "/", "2", "3", "/", "2", "5">>,
  \* 60651 12/31/25 75 Conf:Phone 01/02/26 07:30 12/20/25
  <<"6", "0", "6", "5", "1", " ", "1", "2", "/", "3", "1", "/", "2", "5", " ", "7", "5", " ", "C", "o", "n", "f", ":", "P", "h", "o", "n", "e", " ", "0", "1", "/", "0", "2", "/", "2", "6", " ", "0", "7", ":", "3", "0", " ", "1", "2", "/", "2", "0", "/", "2", "5">>,
  \* 60652 01/05/26 12 Conf:EDI 12/23/25 Frt 41.58 44.49
  <<"6", "0", "6", "5", "2", " ", "0", "1", "/", "0", "5", "/", "2", "6", " ", "1", "2", " ", "C", "o", "n", "f", ":", "E", "D", "I", " ", "1", "2", "/", "2", "3", "/", "2", "5", " ", "F", "r", "t", " ", "4", "1", ".", "5", "8", " ", "4", "4", ".", "4", "9">>,
  \* RUN DATE 12/29/25 Inventory Order Report PAGE: 27
  <<"R", "U", "N", " ", "D", "A", "T", "E", " ", "1", "2", "/", "2", "9", "/", "2", "5", " ", "I", "n", "v", "e", "n", "t", "o", "r", "y", " ", "O", "r", "d", "e", "r", " ", "R", "e", "p", "o", "r", "t", " ", "P", "A", "G", "E", ":", " ", "2", "7">>,
  \* ==========
  <<"=", "=", "=", "=", "=", "=", "=", "=", "=", "=">>,
  \* Open P.O. Summary for Vendor 00001740
  <<"O", "p", "e", "n", " ", "P", ".", "O", ".", " ", "S", "u", "m", "m", "a", "r", "y", " ", "f", "o", "r", " ", "V", "e", "n", "d", "o", "r", " ", "0", "0", "0", "0", "1", "7", "4", "0">>
>>

RECURSIVE TextsOver(_, _)
\* the texts of n lines drawn from the lines S of the catalogue
TextsOver(S, n) ==
  IF n = 0 THEN { <<>> }
  ELSE {Append(t, k) : t \in TextsOver(S, n - 1), k \in S}

\* the texts: up to MaxLines lines among the lines 1 to 11 of the catalogue,
\* and MaxPOLines lines of the vendor headers, the two PO lines that carry
\* the same PO number and a PO line with another number
Texts == UNION {TextsOver(1..11, n) : n \in 1..MaxLines}
         \cup TextsOver({1, 2, 4, 5, 10}, MaxPOLines)

\* the text as one string, its lines joined by the line feed
RawText(t) == JoinWith([k \in 1..Len(t) |-> Catalog[t[k]]], <<"\n">>)

\* the values new Date() can take, in hours: 2025-12-20 00:00 and 2025-12-27 10:00
Clock == {DateHours(2025, 11, 20), DateHours(2025, 11, 27) + 10}

(***************************************************************************)
(* PDF parser: validation of the extraction                                *)
(***************************************************************************)
\* /^[A-Z0-9]{2,8}\s+(CS|S\/O)/im
hasLineItem(U) ==
  \E p \in 0..Len(U) :
    /\ IF p = 0 THEN TRUE ELSE U[p] \in {"\n", "\r"}
    /\ \/ MatchEnds(Rep(Alnum, 2, 8) \o Plus(Space) \o Lit(<<"C", "S">>), 1, U, {p}) # {}
       \/ MatchEnds(Rep(Alnum, 2, 8) \o Plus(Space) \o Lit(<<"S", "/", "O">>), 1, U, {p}) # {}

\* isValidExtraction without the length test
isValidExtractionAnyLength(text) ==
  LET U == UpperStr(text)
  IN  \/ TestAny(Lit(<<"V", "E", "N", "D", "O", "R", ":">>) \o Star(Space) \o Plus(Digit), U)
      \/ TestAny(Lit(<<"P", "R", "O", "D", "#">>), U)
      \/ hasLineItem(U)

isValidExtraction(text) ==
  LET U == UpperStr(text)
      hasVendor == TestAny(Lit(<<"V", "E", "N", "D", "O", "R", ":">>) \o Star(Space) \o Plus(Digit), U)
      hasProdHeader == TestAny(Lit(<<"P", "R", "O", "D", "#">>), U)
  IN  IF Len(text) < 100 THEN FALSE
      ELSE hasVendor \/ hasProdHeader \/ hasLineItem(U)

\* the patterns that end the special-order section in parseAllPOs
isSectionExit(line) ==
  LET U == UpperStr(line)
  IN  \/ TestStart(Lit(<<"V", "N", "D">>) \o Plus(Space) \o Plus(Digit) \o Plus(Space) \o Lit(<<"S", "U", "B", "T", "O", "T">>), U)
      \/ TestStart(Lit(<<"C", "A", "S", "E", "S">>) \o Star(Space) \o Lit(<<":">>), U)
      \/ TestStart(Lit(<<"P", "R", "O", "D", "#">>) \o Plus(Space) \o Lit(<<"U", "N", "T">>), U)

(***************************************************************************)
(* Statistics                                                              *)
(***************************************************************************)
RECURSIVE SumCases(_)
\* array.reduce((sum, po) => sum + po.totalCases, 0)
SumCases(pos) == IF Len(pos) = 0 THEN 0 ELSE pos[1].totalCases + SumCases(Tail(pos))

\* calculateStats that counts the medium-confidence items as needing review too
calculateStatsMediumReview(its) ==
  LET sply(it, n) == it.daysSply # None /\ it.daysSply[1].m <= n * Pow10(it.daysSply[1].e)
  IN  [totalItems |-> Len(its),
       highConfidenceCount |-> Cardinality({k \in DOMAIN its : LET it == its[k] IN it.confidence = "high"}),
       mediumConfidenceCount |-> Cardinality({k \in DOMAIN its : LET it == its[k] IN it.confidence = "medium"}),
       lowConfidenceCount |-> Cardinality({k \in DOMAIN its : LET it == its[k] IN it.confidence = "low"}),
       attentionCount |-> Cardinality({k \in DOMAIN its : LET it == its[k] IN it.confidence = "high" /\ sply(it, 5)}),
       attentionMediumCount |-> Cardinality({k \in DOMAIN its : LET it == its[k] IN it.confidence = "medium" /\ sply(it, 5)}),
       criticalCount |-> Cardinality({k \in DOMAIN its : LET it == its[k] IN it.confidence = "high" /\ sply(it, 2)}),
       needsReviewCount |-> Cardinality({k \in DOMAIN its : LET it == its[k] IN it.confidence # "high" \/ it.daysSply = None}),
       specialOrderCount |-> Cardinality({k \in DOMAIN its : LET it == its[k] IN it.specialOrder}),
       vendorCount |-> Cardinality({its[k].vendorId : k \in DOMAIN its})]

calculateStats(its) ==
  LET sply(it, n) == it.daysSply # None /\ it.daysSply[1].m <= n * Pow10(it.daysSply[1].e)
  IN  [totalItems |-> Len(its),
       highConfidenceCount |-> Cardinality({k \in DOMAIN its : LET it == its[k] IN it.confidence = "high"}),
       mediumConfidenceCount |-> Cardinality({k \in DOMAIN its : LET it == its[k] IN it.confidence = "medium"}),
       lowConfidenceCount |-> Cardinality({k \in DOMAIN its : LET it == its[k] IN it.confidence = "low"}),
       attentionCount |-> Cardinality({k \in DOMAIN its : LET it == its[k] IN it.confidence = "high" /\ sply(it, 5)}),
       attentionMediumCount |-> Cardinality({k \in DOMAIN its : LET it == its[k] IN it.confidence = "medium" /\ sply(it, 5)}),
       criticalCount |-> Cardinality({k \in DOMAIN its : LET it == its[k] IN it.confidence = "high" /\ sply(it, 2)}),
       needsReviewCount |-> Cardinality({k \in DOMAIN its : LET it == its[k] IN it.confidence = "low" \/ it.daysSply = None}),
       specialOrderCount |-> Cardinality({k \in DOMAIN its : LET it == its[k] IN it.specialOrder}),
       vendorCount |-> Cardinality({its[k].vendorId : k \in DOMAIN its})]

\* calculatePOStats that counts the missing EDI confirmations and
\* appointments over all purchase orders
calculatePOStatsOverAll(pos, sos) ==
  LET urgentPOs == SelectSeq(pos, LAMBDA po : po.isUrgent)
  IN  [totalPOs |-> Len(pos),
       totalCases |-> SumCases(pos),
       vendorsWithPOs |-> Cardinality({pos[k].vendorId : k \in DOMAIN pos}),
       thisWeekArrivals |-> Cardinality({k \in DOMAIN pos : LET po == pos[k] IN po.daysUntilDue >= 0 /\ po.daysUntilDue <= 7}),
       specialOrderCount |-> Len(sos),
       readyCount |-> Cardinality({k \in DOMAIN sos : LET so == sos[k] IN so.status = "Ready"}),
       doqCount |-> Cardinality({k \in DOMAIN sos : LET so == sos[k] IN so.status = "*DOQ*"}),
       pendingCount |-> Cardinality({k \in DOMAIN sos : LET so == sos[k] IN so.status = "Order"}),
       urgentPOCount |-> Len(urgentPOs),
       urgentCases |-> SumCases(urgentPOs),
       missingEDICount |->
         Cardinality({k \in DOMAIN pos : LET po == pos[k] IN po.edi # Some(TRUE)}),
       missingAppointmentCount |->
         Cardinality({k \in DOMAIN pos : LET po == pos[k] IN po.appointment = None}),
       overduePOCount |-> Cardinality({k \in DOMAIN pos : LET po == pos[k] IN po.daysUntilDue < 0})]

calculatePOStats(pos, sos) ==
  LET urgentPOs == SelectSeq(pos, LAMBDA po : po.isUrgent)
  IN  [totalPOs |-> Len(pos),
       totalCases |-> SumCases(pos),
       vendorsWithPOs |-> Cardinality({pos[k].vendorId : k \in DOMAIN pos}),
       thisWeekArrivals |-> Cardinality({k \in DOMAIN pos : LET po == pos[k] IN po.daysUntilDue >= 0 /\ po.daysUntilDue <= 7}),
       specialOrderCount |-> Len(sos),
       readyCount |-> Cardinality({k \in DOMAIN sos : LET so == sos[k] IN so.status = "Ready"}),
       doqCount |-> Cardinality({k \in DOMAIN sos : LET so == sos[k] IN so.status = "*DOQ*"}),
       pendingCount |-> Cardinality({k \in DOMAIN sos : LET so == sos[k] IN so.status = "Order"}),
       urgentPOCount |-> Len(urgentPOs),
       urgentCases |-> SumCases(urgentPOs),
       missingEDICount |->
         Cardinality({k \in DOMAIN urgentPOs : LET po == urgentPOs[k] IN \E r \in DOMAIN po.urgentReasons : po.urgentReasons[r] = "No EDI confirmation"}),
       missingAppointmentCount |->
         Cardinality({k \in DOMAIN urgentPOs : LET po == urgentPOs[k] IN \E r \in DOMAIN po.urgentReasons : po.urgentReasons[r] = "No appointment"}),
       overduePOCount |-> Cardinality({k \in DOMAIN pos : LET po == pos[k] IN po.daysUntilDue < 0})]

(***************************************************************************)
(* State                                                                   *)
(***************************************************************************)
VARIABLES
  text,                   \* the extracted text handed to parsePdf
  pc,                     \* where parsePdf is: start, lines, pos, done, rejected
  call,                   \* which call of parsePdf on this text: 1 or 2
  reportDate,             \* the report date of the call, in hours
  i,                      \* the loop index of the running line loop (0-based)
  currentVendor,          \* the vendor cursor of the running line loop
  items,                  \* parseAllLines: the items emitted
  errors,                 \* parseAllLines: the errors
  purchaseOrders,         \* parseAllPOs: the purchase orders emitted
  specialOrders,          \* parseAllPOs: the special orders emitted
  poErrors,               \* parseAllPOs: the errors
  seenPONumbers,          \* parseAllPOs: the PO numbers already emitted
  inSpecialOrderSection,  \* parseAllPOs: the section flag
  itemSrc,                \* history: the 1-based source line of each item
  poSrc,                  \* history: the 1-based source line of each purchase order
  soSrc,                  \* history: the 1-based source line of each special order
  result,                 \* the response of the call, None until it returns
  prev,                   \* history: the outcome of the first call
  thrown,                 \* history: the loop and line of each exception thrown
  arg,                    \* the argument of a field recoverer applied on its own
  ret                     \* its result

vars == <<text, pc, call, reportDate, i, currentVendor, items, errors, purchaseOrders,
          specialOrders, poErrors, seenPONumbers, inSpecialOrderSection,
          itemSrc, poSrc, soSrc, result, prev, thrown, arg, ret>>

lineVars == <<items, errors, itemSrc>>

poVars == <<purchaseOrders, specialOrders, poErrors, seenPONumbers,
            inSpecialOrderSection, poSrc, soSrc>>

auxVars == <<arg, ret, thrown>>

\* the line the running loop is at
line == Catalog[text[i + 1]]

lineNum == i + 1

\* the state of a process before its first call of parsePdf
NoCallYet ==
  /\ pc = "start"
  /\ call = 1
  /\ reportDate = 0
  /\ i = 0
  /\ currentVendor = None
  /\ items = <<>>
  /\ errors = <<>>
  /\ purchaseOrders = <<>>
  /\ specialOrders = <<>>
  /\ poErrors = <<>>
  /\ seenPONumbers = {}
  /\ inSpecialOrderSection = FALSE
  /\ itemSrc = <<>>
  /\ poSrc = <<>>
  /\ soSrc = <<>>
  /\ result = None
  /\ prev = None
  /\ thrown = {}
  /\ arg = None
  /\ ret = None

Init == text \in Texts /\ NoCallYet

(***************************************************************************)
(* parsePdf: validation, report date, then the two line loops              *)
(***************************************************************************)
\* the locals of a call of parseAllLines, as declared on entry
newCurrentVendor == None

newErrors == <<>>

\* the seen-PO set of the call before, left as it was
staleSeenPONumbers == seenPONumbers

\* the locals of a call of parseAllPOs, as declared on entry
newSeenPONumbers == {}

\* parsePdf throws on an extraction that fails the sanity check
ParsePdfReject ==
  /\ pc = "start"
  /\ ~isValidExtraction(RawText(text))
  /\ pc' = "rejected"
  /\ result' = None
  /\ UNCHANGED <<text, call, reportDate, i, currentVendor, lineVars, poVars, prev, auxVars>>

\* parsePdf takes the report date (new Date() when the text names none) and
\* enters parseAllLines
ParsePdfBegin ==
  /\ pc = "start"
  /\ isValidExtraction(RawText(text))
  /\ \E now \in Clock :
       LET d == extractReportDate(RawText(text))
       IN  reportDate' = IF d # None THEN d[1] ELSE now
  /\ pc' = "lines"
  /\ i' = 0
  /\ currentVendor' = newCurrentVendor
  /\ items' = <<>>
  /\ errors' = newErrors
  /\ itemSrc' = <<>>
  /\ result' = None
  /\ UNCHANGED <<text, call, poVars, prev, auxVars>>

\* nextVendor that keeps the first vendor once one is set
nextVendorKeep(cur, vendor) == IF cur = None THEN vendor ELSE cur

\* the vendor cursor after a vendor-header line
nextVendor(cur, vendor) == vendor

\* noVendorError that reports nothing
noVendorErrorSilent(errs, n) == errs

\* the error list after an item line met before any vendor header
noVendorError(errs, n) ==
  Append(errs, [line |-> n, msg |-> "Item found before vendor declaration"])

\* a catch block that swallows the exception
caughtErrorSwallowed(errs, n, msg) == errs

\* the error list after the catch block of a line loop
caughtError(errs, n, msg) == Append(errs, [line |-> n, msg |-> msg])

\* the body of the loop of parseAllLines on the line ln, vendor being
\* parseVendorLine(ln)
LineBody(ln, vendor) ==
  IF vendor # None
  THEN /\ currentVendor' = nextVendor(currentVendor, vendor)
       /\ UNCHANGED lineVars
  ELSE IF shouldSkipLine(ln) \/ ~isItemLine(ln)
  THEN UNCHANGED <<currentVendor, lineVars>>
  ELSE IF currentVendor = None
  THEN /\ errors' = noVendorError(errors, lineNum)
       /\ UNCHANGED <<currentVendor, items, itemSrc>>
  ELSE /\ items' = Append(items, parseItemLine(ln, currentVendor[1]))
       /\ itemSrc' = Append(itemSrc, lineNum)
       /\ UNCHANGED <<currentVendor, errors>>

\* one iteration of the loop of parseAllLines
ParseAllLinesStep ==
  /\ pc = "lines"
  /\ i < Len(text)
  /\ LineBody(line, parseVendorLine(line))
  /\ i' = i + 1
  /\ UNCHANGED <<text, pc, call, reportDate, poVars, result, prev, auxVars>>

\* parseAllLines returns and parsePdf enters parseAllPOs
ParseAllLinesReturn ==
  /\ pc = "lines"
  /\ i = Len(text)
  /\ pc' = "pos"
  /\ i' = 0
  /\ currentVendor' = newCurrentVendor
  /\ purchaseOrders' = <<>>
  /\ specialOrders' = <<>>
  /\ poErrors' = newErrors
  /\ seenPONumbers' = newSeenPONumbers
  /\ inSpecialOrderSection' = FALSE
  /\ poSrc' = <<>>
  /\ soSrc' = <<>>
  /\ UNCHANGED <<text, call, reportDate, lineVars, result, prev, auxVars>>

\* the vendor parseAllPOs takes from a match of VENDOR_PATTERN
poVendorOf(match) == [id |-> Trim(match.id), name |-> Trim(StripStar(match.name))]

\* the section flag after the exit check of parseAllPOs
afterExitCheck(inSection, ln) == IF inSection /\ isSectionExit(ln) THEN FALSE ELSE inSection

\* isNewPO without the seen-number test: every parsed PO line is emitted
isNewPOAlways(po, seen) == po # None

\* is the purchase order parsed from a line emitted: a record, and a PO number
\* not seen before
isNewPO(po, seen) == po # None /\ po[1].poNumber \notin seen

\* POBranch that puts the new record first (unshift for push)
POBranchUnshift(po) ==
  IF isNewPO(po, seenPONumbers)
  THEN /\ seenPONumbers' = seenPONumbers \cup {po[1].poNumber}
       /\ purchaseOrders' = <<po[1]>> \o purchaseOrders
       /\ poSrc' = <<lineNum>> \o poSrc
  ELSE UNCHANGED <<seenPONumbers, purchaseOrders, poSrc>>

\* parseAllPOs on a PO data line, po being what parsePOLine made of it
POBranch(po) ==
  IF isNewPO(po, seenPONumbers)
  THEN /\ seenPONumbers' = seenPONumbers \cup {po[1].poNumber}
       /\ purchaseOrders' = Append(purchaseOrders, po[1])
       /\ poSrc' = Append(poSrc, lineNum)
  ELSE UNCHANGED <<seenPONumbers, purchaseOrders, poSrc>>

\* parseAllPOs on a line of the special-order section, so being what
\* parseSpecialOrderLine made of it
SOBranch(so) ==
  IF so # None
  THEN /\ specialOrders' = Append(specialOrders, so[1])
       /\ soSrc' = Append(soSrc, lineNum)
  ELSE UNCHANGED <<specialOrders, soSrc>>

\* POLineBody whose vendor-header branch leaves the section flag as it is
POLineBodySectionKept(ln, vendorMatch) ==
  IF vendorMatch # None
  THEN /\ currentVendor' = Some(poVendorOf(vendorMatch[1]))
       /\ UNCHANGED <<inSpecialOrderSection, purchaseOrders, specialOrders, seenPONumbers,
                      poSrc, soSrc>>
  ELSE IF isSpecialOrderHeader(ln)
  THEN /\ inSpecialOrderSection' = TRUE
       /\ UNCHANGED <<currentVendor, purchaseOrders, specialOrders, seenPONumbers,
                      poSrc, soSrc>>
  ELSE IF Len(Trim(ln)) = 0
  THEN UNCHANGED <<currentVendor, purchaseOrders, specialOrders, seenPONumbers,
                   inSpecialOrderSection, poSrc, soSrc>>
  ELSE /\ inSpecialOrderSection' = afterExitCheck(inSpecialOrderSection, ln)
       /\ UNCHANGED currentVendor
       /\ IF currentVendor # None /\ isPODataLine(ln)
          THEN /\ POBranch(parsePOLine(ln, currentVendor[1], reportDate))
               /\ UNCHANGED <<specialOrders, soSrc>>
          ELSE IF inSpecialOrderSection' /\ currentVendor # None
          THEN /\ SOBranch(parseSpecialOrderLine(ln, currentVendor[1]))
               /\ UNCHANGED <<purchaseOrders, seenPONumbers, poSrc>>
          ELSE UNCHANGED <<purchaseOrders, specialOrders, seenPONumbers, poSrc, soSrc>>

\* POLineBody whose special-order header branch starts the section with the
\* set of seen PO numbers emptied
POLineBodySeenCleared(ln, vendorMatch) ==
  IF vendorMatch # None
  THEN /\ currentVendor' = Some(poVendorOf(vendorMatch[1]))
       /\ inSpecialOrderSection' = FALSE
       /\ UNCHANGED <<purchaseOrders, specialOrders, seenPONumbers, poSrc, soSrc>>
  ELSE IF isSpecialOrderHeader(ln)
  THEN /\ inSpecialOrderSection' = TRUE
       /\ seenPONumbers' = {}
       /\ UNCHANGED <<currentVendor, purchaseOrders, specialOrders, poSrc, soSrc>>
  ELSE IF Len(Trim(ln)) = 0
  THEN UNCHANGED <<currentVendor, purchaseOrders, specialOrders, seenPONumbers,
                   inSpecialOrderSection, poSrc, soSrc>>
  ELSE /\ inSpecialOrderSection' = afterExitCheck(inSpecialOrderSection, ln)
       /\ UNCHANGED currentVendor
       /\ IF currentVendor # None /\ isPODataLine(ln)
          THEN /\ POBranch(parsePOLine(ln, currentVendor[1], reportDate))
               /\ UNCHANGED <<specialOrders, soSrc>>
          ELSE IF inSpecialOrderSection' /\ currentVendor # None
          THEN /\ SOBranch(parseSpecialOrderLine(ln, currentVendor[1]))
               /\ UNCHANGED <<purchaseOrders, seenPONumbers, poSrc>>
          ELSE UNCHANGED <<purchaseOrders, specialOrders, seenPONumbers, poSrc, soSrc>>

\* POLineBody that tries every line under a vendor as a special order,
\* inside the section or not
POLineBodyAnySection(ln, vendorMatch) ==
  IF vendorMatch # None
  THEN /\ currentVendor' = Some(poVendorOf(vendorMatch[1]))
       /\ inSpecialOrderSection' = FALSE
       /\ UNCHANGED <<purchaseOrders, specialOrders, seenPONumbers, poSrc, soSrc>>
  ELSE IF isSpecialOrderHeader(ln)
  THEN /\ inSpecialOrderSection' = TRUE
       /\ UNCHANGED <<currentVendor, purchaseOrders, specialOrders, seenPONumbers,
                      poSrc, soSrc>>
  ELSE IF Len(Trim(ln)) = 0
  THEN UNCHANGED <<currentVendor, purchaseOrders, specialOrders, seenPONumbers,
                   inSpecialOrderSection, poSrc, soSrc>>
  ELSE /\ inSpecialOrderSection' = afterExitCheck(inSpecialOrderSection, ln)
       /\ UNCHANGED currentVendor
       /\ IF currentVendor # None /\ isPODataLine(ln)
          THEN /\ POBranch(parsePOLine(ln, currentVendor[1], reportDate))
               /\ UNCHANGED <<specialOrders, soSrc>>
          ELSE IF currentVendor # None
          THEN /\ SOBranch(parseSpecialOrderLine(ln, currentVendor[1]))
               /\ UNCHANGED <<purchaseOrders, seenPONumbers, poSrc>>
          ELSE UNCHANGED <<purchaseOrders, specialOrders, seenPONumbers, poSrc, soSrc>>

\* POLineBody that looks for PO lines outside the special-order section only
POLineBodyOutsideOnly(ln, vendorMatch) ==
  IF vendorMatch # None
  THEN /\ currentVendor' = Some(poVendorOf(vendorMatch[1]))
       /\ inSpecialOrderSection' = FALSE
       /\ UNCHANGED <<purchaseOrders, specialOrders, seenPONumbers, poSrc, soSrc>>
  ELSE IF isSpecialOrderHeader(ln)
  THEN /\ inSpecialOrderSection' = TRUE
       /\ UNCHANGED <<currentVendor, purchaseOrders, specialOrders, seenPONumbers,
                      poSrc, soSrc>>
  ELSE IF Len(Trim(ln)) = 0
  THEN UNCHANGED <<currentVendor, purchaseOrders, specialOrders, seenPONumbers,
                   inSpecialOrderSection, poSrc, soSrc>>
  ELSE /\ inSpecialOrderSection' = afterExitCheck(inSpecialOrderSection, ln)
       /\ UNCHANGED currentVendor
       /\ IF currentVendor # None /\ isPODataLine(ln) /\ ~inSpecialOrderSection'
          THEN /\ POBranch(parsePOLine(ln, currentVendor[1], reportDate))
               /\ UNCHANGED <<specialOrders, soSrc>>
          ELSE IF inSpecialOrderSection' /\ currentVendor # None
          THEN /\ SOBranch(parseSpecialOrderLine(ln, currentVendor[1]))
               /\ UNCHANGED <<purchaseOrders, seenPONumbers, poSrc>>
          ELSE UNCHANGED <<purchaseOrders, specialOrders, seenPONumbers, poSrc, soSrc>>

\* the body of the loop of parseAllPOs on the line ln, vendorMatch being
\* ln.match(VENDOR_PATTERN)
POLineBody(ln, vendorMatch) ==
  IF vendorMatch # None
  THEN /\ currentVendor' = Some(poVendorOf(vendorMatch[1]))
       /\ inSpecialOrderSection' = FALSE
       /\ UNCHANGED <<purchaseOrders, specialOrders, seenPONumbers, poSrc, soSrc>>
  ELSE IF isSpecialOrderHeader(ln)
  THEN /\ inSpecialOrderSection' = TRUE
       /\ UNCHANGED <<currentVendor, purchaseOrders, specialOrders, seenPONumbers,
                      poSrc, soSrc>>
  ELSE IF Len(Trim(ln)) = 0
  THEN UNCHANGED <<currentVendor, purchaseOrders, specialOrders, seenPONumbers,
                   inSpecialOrderSection, poSrc, soSrc>>
  ELSE /\ inSpecialOrderSection' = afterExitCheck(inSpecialOrderSection, ln)
       /\ UNCHANGED currentVendor
       /\ IF currentVendor # None /\ isPODataLine(ln)
          THEN /\ POBranch(parsePOLine(ln, currentVendor[1], reportDate))
               /\ UNCHANGED <<specialOrders, soSrc>>
          ELSE IF inSpecialOrderSection' /\ currentVendor # None
          THEN /\ SOBranch(parseSpecialOrderLine(ln, currentVendor[1]))
               /\ UNCHANGED <<purchaseOrders, seenPONumbers, poSrc>>
          ELSE UNCHANGED <<purchaseOrders, specialOrders, seenPONumbers, poSrc, soSrc>>

\* one iteration of the loop of parseAllPOs
ParseAllPOsStep ==
  /\ pc = "pos"
  /\ i < Len(text)
  /\ POLineBody(line, VendorMatch(line))
  /\ i' = i + 1
  /\ UNCHANGED <<text, pc, call, reportDate, lineVars, poErrors, result, prev, auxVars>>

\* the response parsePdf builds
response ==
  [items |-> items,
   purchaseOrders |-> purchaseOrders,
   specialOrders |-> specialOrders,
   stats |-> calculateStats(items),
   poStats |-> calculatePOStats(purchaseOrders, specialOrders),
   reportDate |-> reportDate \div 24,
   parseErrors |-> errors \o poErrors]

\* parseAllPOs returns and parsePdf returns the response
ParseAllPOsReturn ==
  /\ pc = "pos"
  /\ i = Len(text)
  /\ pc' = "done"
  /\ result' = Some(response)
  /\ UNCHANGED <<text, call, reportDate, i, currentVendor, lineVars, poVars, prev, auxVars>>

Next ==
  \/ ParsePdfReject
  \/ ParsePdfBegin
  \/ ParseAllLinesStep
  \/ ParseAllLinesReturn
  \/ ParseAllPOsStep
  \/ ParseAllPOsReturn

Spec == Init /\ [][Next]_vars

\* the texts of a report page that breaks inside a section: up to MaxPOLines
\* lines among the vendor headers, the special-order header and a
\* special-order line, a PO line that ends in two amounts, and the page header;
\* and MaxPOLines lines among a vendor header, a PO line, the special-order
\* header and a special-order line, the column header, a divider and the
\* header of the PO summary
PageTexts == UNION {TextsOver({1, 2, 6, 7, 12, 13}, n) : n \in 1..MaxPOLines}
             \cup TextsOver({1, 4, 6, 7, 9, 14, 15}, MaxPOLines)

InitPage == text \in PageTexts /\ NoCallYet

SpecPage == InitPage /\ [][Next]_vars

(***************************************************************************)
(* Two calls of parsePdf on the same text                                  *)
(***************************************************************************)
\* parsePdf is called again on the same text; the finished call leaves its
\* locals as they were
ParsePdfAgain ==
  /\ pc \in {"done", "rejected"}
  /\ call = 1
  /\ prev' = Some([pc |-> pc, result |-> result, reportDate |-> reportDate])
  /\ call' = 2
  /\ pc' = "start"
  /\ result' = None
  /\ UNCHANGED <<text, reportDate, i, currentVendor, lineVars, poVars, auxVars>>

NextTwice ==
  \/ Next
  \/ ParsePdfAgain

SpecTwice == Init /\ [][NextTwice]_vars

(***************************************************************************)
(* The line loops with exceptions: a line's parsing may throw, the catch   *)
(* block of the loop records it                                            *)
(***************************************************************************)
MaxFaults == 1

\* parsing the line throws in parseAllLines: nothing was assigned before the
\* throw, the catch block pushes the error
ParseAllLinesThrow ==
  /\ pc = "lines"
  /\ i < Len(text)
  /\ Cardinality(thrown) < MaxFaults
  /\ errors' = caughtError(errors, lineNum, "Parse error")
  /\ thrown' = thrown \cup {<<"lines", lineNum>>}
  /\ i' = i + 1
  /\ UNCHANGED <<text, pc, call, reportDate, currentVendor, items, itemSrc, poVars,
                 result, prev, arg, ret>>

\* parsing the line throws in parseAllPOs, before or after the section exit
\* check (which only lines past the three early continues reach); the catch
\* block pushes the error
ParseAllPOsThrow ==
  /\ pc = "pos"
  /\ i < Len(text)
  /\ Cardinality(thrown) < MaxFaults
  /\ poErrors' = caughtError(poErrors, lineNum, "PO parse error")
  /\ thrown' = thrown \cup {<<"pos", lineNum>>}
  /\ \E pastExitCheck \in BOOLEAN :
       /\ pastExitCheck =>
            /\ VendorMatch(line) = None
            /\ ~isSpecialOrderHeader(line)
            /\ Len(Trim(line)) # 0
       /\ inSpecialOrderSection' = IF pastExitCheck
                                   THEN afterExitCheck(inSpecialOrderSection, line)
                                   ELSE inSpecialOrderSection
  /\ i' = i + 1
  /\ UNCHANGED <<text, pc, call, reportDate, currentVendor, lineVars, purchaseOrders,
                 specialOrders, seenPONumbers, poSrc, soSrc, result, prev, arg, ret>>

NextFault ==
  \/ Next
  \/ ParseAllLinesThrow
  \/ ParseAllPOsThrow

\* the loops are sequential code: a call that can take a step takes it
\* the texts given to the loops that throw: up to MaxLines lines among a
\* vendor header, an item line, two PO lines with different numbers and the
\* header and a line of a special-order section, and MaxPOLines lines among
\* the vendor header and the two PO lines, in which a line can throw between
\* two lines that give purchase orders
FaultTexts == UNION {TextsOver({1, 3, 4, 6, 7, 10}, n) : n \in 1..MaxLines}
              \cup TextsOver({1, 4, 10}, MaxPOLines)

InitFault == text \in FaultTexts /\ NoCallYet

\* a call that is not over goes on: the code is sequential and nothing in it
\* waits.  Every action of NextFault is guarded by pc and the loop test alone
\* and assigns in all its branches, so NextFault is enabled exactly while the
\* call is not over, and this is weak fairness of NextFault
RunsOn == []<>(pc \in {"done", "rejected"}) \/ []<><<NextFault>>_vars

SpecFault == InitFault /\ [][NextFault]_vars /\ RunsOn

(***************************************************************************)
(* The field recoverers applied on their own to the tokens of an item line *)
(***************************************************************************)
MaxRun == 9

\* the tokens before the numeric columns
ItemFront(isSpecialOrder) ==
  << <<"5", "4", "4", "0", "6">>,
     IF isSpecialOrder THEN <<"S", "/", "O">> ELSE <<"C", "S">>,
     <<"7", "2", "/", "1">>, <<"O", "Z">>,
     <<"D", "O", "R", "I", "T", "O">>, <<"C", "H", "I", "P">> >>

\* r numeric columns, each with its own value: integers, or integers with a
\* decimal days of supply in the last column
RunTokens(r, decimal) ==
  [k \in 1..r |-> IF decimal /\ k = r THEN <<"4", ".", "2">>
                  ELSE <<"2", DigitSeq[(k % 10) + 1]>>]

\* the item lines the recoverers are applied to, as token lists, with and
\* without the tokens before the numeric columns; the landed cost, market
\* cost, slot and IP tokens are well formed, or not
ItemInputs ==
  {[tokens |-> (IF front THEN ItemFront(so) ELSE <<>>) \o RunTokens(r, dec)
                 \o <<lnd, mrk, slot, ip>>,
    isSpecialOrder |-> so, runLen |-> r, run |-> RunTokens(r, dec)] :
     front \in BOOLEAN, so \in BOOLEAN, r \in 0..MaxRun, dec \in BOOLEAN,
     lnd \in { <<"2", "8", ".", "7", "9">>, <<"2", "8">> },
     mrk \in { <<"3", "1", ".", "0", "5">>, <<"3", "1">> },
     slot \in { <<"D", "L", "3", "4", "0", "0">>, <<"D", "-", "1">> },
     ip \in { <<"4", ".", "4">>, <<"4", ".", "4", "-">>, <<"4">> }}
  \cup
  {[tokens |-> t, isSpecialOrder |-> so, runLen |-> 0, run |-> <<>>] :
     so \in BOOLEAN,
     t \in { << <<"4", "1", ".", "5", "8">>, <<"4", "4", ".", "4", "9">>,
                <<"D", "R", "Y">>, <<"4", ".", "6">> >>,
             << <<"4", "4", ".", "4", "9">>, <<"D", "R", "Y">>, <<"4", ".", "6">> >>,
             << <<"D", "R", "Y">>, <<"0", ".", "7", "-">> >> }}

\* the vendor the item lines are parsed under
ItemVendor == [id |-> <<"0", "0", "0", "0", "1", "7", "4", "0">>,
               name |-> <<"F", "R", "I", "T", "O", " ", "L", "A", "Y">>]

InitItem ==
  /\ arg \in {Some(x) : x \in ItemInputs}
  /\ ret = None
  /\ pc = "fn"
  /\ text = <<>>
  /\ call = 1
  /\ reportDate = 0
  /\ i = 0
  /\ currentVendor = None
  /\ items = <<>>
  /\ errors = <<>>
  /\ purchaseOrders = <<>>
  /\ specialOrders = <<>>
  /\ poErrors = <<>>
  /\ seenPONumbers = {}
  /\ inSpecialOrderSection = FALSE
  /\ itemSrc = <<>>
  /\ poSrc = <<>>
  /\ soSrc = <<>>
  /\ result = None
  /\ prev = None
  /\ thrown = {}

\* parseTail applied to the tokens
ApplyParseTail ==
  /\ pc = "fn"
  /\ ret' = Some([fn |-> "parseTail",
                  val |-> parseTail(arg[1].tokens, arg[1].isSpecialOrder)])
  /\ UNCHANGED <<text, pc, call, reportDate, i, currentVendor, lineVars, poVars,
                 result, prev, thrown, arg>>

\* parseItemLine applied to the line the tokens make
ApplyParseItemLine ==
  /\ pc = "fn"
  /\ ret' = Some([fn |-> "parseItemLine",
                  val |-> parseItemLine(JoinWith(arg[1].tokens, <<" ">>), ItemVendor)])
  /\ UNCHANGED <<text, pc, call, reportDate, i, currentVendor, lineVars, poVars,
                 result, prev, thrown, arg>>

\* parseTail of lineParser.ts applied to the tokens
ApplyLineParserParseTail ==
  /\ pc = "fn"
  /\ ret' = Some([fn |-> "lineParser.parseTail",
                  val |-> lineParser_parseTail(arg[1].tokens)])
  /\ UNCHANGED <<text, pc, call, reportDate, i, currentVendor, lineVars, poVars,
                 result, prev, thrown, arg>>

\* parseItemLine of lineParser.ts applied to the line the tokens make
ApplyLineParserParseItemLine ==
  /\ pc = "fn"
  /\ ret' = Some([fn |-> "lineParser.parseItemLine",
                  val |-> lineParser_parseItemLine(JoinWith(arg[1].tokens, <<" ">>),
                                                   ItemVendor)])
  /\ UNCHANGED <<text, pc, call, reportDate, i, currentVendor, lineVars, poVars,
                 result, prev, thrown, arg>>

\* parseTail applied to the tokens twice, as a special order and not
ApplyParseTailBothWays ==
  /\ pc = "fn"
  /\ ret' = Some([fn |-> "parseTail both ways",
                  val |-> [so |-> parseTail(arg[1].tokens, TRUE),
                           plain |-> parseTail(arg[1].tokens, FALSE)]])
  /\ UNCHANGED <<text, pc, call, reportDate, i, currentVendor, lineVars, poVars,
                 result, prev, thrown, arg>>

\* calculateStats applied to the items parseItemLine gives for the item line
\* of the catalogue and the line the tokens make
ApplyCalculateStats ==
  /\ pc = "fn"
  /\ ret' = Some([fn |-> "calculateStats",
                  val |-> LET its == <<parseItemLine(Catalog[3], ItemVendor),
                                       parseItemLine(JoinWith(arg[1].tokens, <<" ">>),
                                                     ItemVendor)>>
                          IN  [items |-> its, stats |-> calculateStats(its)]])
  /\ UNCHANGED <<text, pc, call, reportDate, i, currentVendor, lineVars, poVars,
                 result, prev, thrown, arg>>

\* parseTail of api/parse.ts and parseTail of lineParser.ts applied to the
\* same tokens
ApplyBothParseTails ==
  /\ pc = "fn"
  /\ ret' = Some([fn |-> "both parseTails",
                  val |-> [api |-> parseTail(arg[1].tokens, arg[1].isSpecialOrder),
                           legacy |-> lineParser_parseTail(arg[1].tokens)]])
  /\ UNCHANGED <<text, pc, call, reportDate, i, currentVendor, lineVars, poVars,
                 result, prev, thrown, arg>>

NextItem ==
  \/ ApplyParseTail
  \/ ApplyParseItemLine
  \/ ApplyParseTailBothWays
  \/ ApplyLineParserParseTail
  \/ ApplyLineParserParseItemLine
  \/ ApplyCalculateStats
  \/ ApplyBothParseTails

SpecItem == InitItem /\ [][NextItem]_vars

(***************************************************************************)
(* The line classifiers and recoverers applied to single lines             *)
(***************************************************************************)
\* the longest run of tokens added to the front of an item line
MaxDesc == 5

\* the lines the classifiers are applied to, as token lists.
\* PO-shaped lines: a PO number of 5, 4 or 6 digits, a date or not, a case
\* count that is an integer, a decimal or an integer of 6 digits, and a
\* remainder with or without status, dates, a time, Yes and No.
\* Item-shaped lines of 5 to 9 tokens: a first token that is a product number
\* or not, words, and decimals at the end of the line (the last with a
\* trailing dash or not) or right after the first token.
\* The front of an item line followed by up to MaxDesc tokens, each a word,
\* an integer or a decimal
LineInputs ==
  {<<po, due, cases>> \o rest :
     po \in { <<"6", "0", "6", "5", "3">>, <<"6", "0", "6", "5">>, <<"6", "0", "6", "5", "3", "0">> },
     due \in { <<"0", "1", "/", "0", "5", "/", "2", "6">>, <<"0", "1", "/", "0", "5">> },
     cases \in { <<"1", "2">>, <<"1", "2", ".", "5">>, <<"1", "2", "3", "4", "5", "6">> },
     rest \in { <<>>,
               << <<"C", "o", "n", "f", ":", "E", "D", "I">> >>,
               << <<"C", "o", "n", "f", ":", "P", "h", "o", "n", "e">> >>,
               << <<"P", "e", "n", "d", "i", "n", "g">> >>,
               << <<"P", "e", "n", "d", "i", "n", "g">>, <<"1", "2", "/", "2", "0", "/", "2", "5">> >>,
               << <<"P", "e", "n", "d", "i", "n", "g">>, <<"1", "2", "/", "2", "0", "/", "2", "5">>, <<"1", "2", "/", "2", "1", "/", "2", "5">> >>,
               << <<"P", "e", "n", "d", "i", "n", "g">>, <<"0", "7", ":", "3", "0">> >>,
               << <<"H", "o", "l", "d">>, <<"C", "o", "n", "f", ":", "P", "h", "o", "n", "e">> >>,
               << <<"P", "e", "n", "d", "i", "n", "g">>, <<"N", "o">> >>,
               << <<"R", "e", "c", "e", "i", "v", "e", "d">>, <<"Y", "e", "s">> >> }}
  \cup
  {<<first>> \o (IF early THEN << <<"4", ".", "5">>, <<"3", "1", ".", "0", "5">> >> ELSE <<>>)
     \o [k \in 1..(n - 1 - d - (IF early THEN 2 ELSE 0)) |-> <<"M", "I", "X">>]
     \o [k \in 1..d |-> IF dash /\ k = d THEN <<"0", ".", "7", "-">> ELSE <<"4", ".", "5">>] :
     first \in { <<"5", "4", "4", "0", "6">>, <<"A">>, <<"A", "B", "C", "D", "E", "F", "G", "H", "I">>, <<"A", "B", "-", "1">> },
     n \in 5..9, d \in 0..3, dash \in BOOLEAN, early \in BOOLEAN}
  \cup
  {<< <<"5", "4", "4", "0", "6">>, <<"C", "S">>, <<"7", "2", "/", "1">>, <<"O", "Z">>, <<"D", "O", "R", "I", "T", "O">>, <<"C", "H", "I", "P">> >> \o s :
     s \in UNION {TextsOver({ <<"M", "I", "X">>, <<"1", "2">>, <<"4", ".", "5">> }, n) : n \in 0..MaxDesc}}

\* the lines are parsed with the report date 2025-12-29
InitLine ==
  /\ arg \in {Some([tokens |-> t]) : t \in LineInputs}
  /\ ret = None
  /\ pc = "fn"
  /\ text = <<>>
  /\ call = 1
  /\ reportDate = DateHours(2025, 11, 29)
  /\ i = 0
  /\ currentVendor = None
  /\ items = <<>>
  /\ errors = <<>>
  /\ purchaseOrders = <<>>
  /\ specialOrders = <<>>
  /\ poErrors = <<>>
  /\ seenPONumbers = {}
  /\ inSpecialOrderSection = FALSE
  /\ itemSrc = <<>>
  /\ poSrc = <<>>
  /\ soSrc = <<>>
  /\ result = None
  /\ prev = None
  /\ thrown = {}

\* isPODataLine applied to the line the tokens make
ApplyIsPODataLine ==
  /\ pc = "fn"
  /\ ret' = Some([fn |-> "isPODataLine",
                  val |-> isPODataLine(JoinWith(arg[1].tokens, <<" ">>))])
  /\ UNCHANGED <<text, pc, call, reportDate, i, currentVendor, lineVars, poVars,
                 result, prev, thrown, arg>>

\* parsePOLine applied to the line the tokens make
ApplyParsePOLine ==
  /\ pc = "fn"
  /\ ret' = Some([fn |-> "parsePOLine",
                  val |-> parsePOLine(JoinWith(arg[1].tokens, <<" ">>), ItemVendor,
                                      reportDate)])
  /\ UNCHANGED <<text, pc, call, reportDate, i, currentVendor, lineVars, poVars,
                 result, prev, thrown, arg>>

\* isItemLine applied to the line the tokens make
ApplyIsItemLine ==
  /\ pc = "fn"
  /\ ret' = Some([fn |-> "isItemLine",
                  val |-> isItemLine(JoinWith(arg[1].tokens, <<" ">>))])
  /\ UNCHANGED <<text, pc, call, reportDate, i, currentVendor, lineVars, poVars,
                 result, prev, thrown, arg>>

\* parseFront applied to the tokens
ApplyParseFront ==
  /\ pc = "fn"
  /\ ret' = Some([fn |-> "parseFront", val |-> parseFront(arg[1].tokens)])
  /\ UNCHANGED <<text, pc, call, reportDate, i, currentVendor, lineVars, poVars,
                 result, prev, thrown, arg>>

NextLine ==
  \/ ApplyIsPODataLine
  \/ ApplyParsePOLine
  \/ ApplyIsItemLine
  \/ ApplyParseFront

SpecLine == InitLine /\ [][NextLine]_vars

(***************************************************************************)
(* Properties of the purchase-order records                                *)
(***************************************************************************)
\* the purchase-order records emitted so far
POs == {purchaseOrders[k] : k \in 1..Len(purchaseOrders)}

\* C1: every purchase-order record emitted by parseAllPOs is urgent if and
\* only if it is due within 5 days and its EDI flag is not true or its
\* appointment is null
C1_UrgentIff ==
  \A po \in POs :
    po.isUrgent <=> (po.daysUntilDue <= 5 /\ (po.edi # Some(TRUE) \/ po.appointment = None))

\* a finished parse that emitted an urgent order and an order without
\* appointment that is due later than 5 days and is not urgent
C1_Witness ==
  /\ pc = "done"
  /\ \E po \in POs : po.isUrgent /\ po.daysUntilDue <= 5
  /\ \E po \in POs : ~po.isUrgent /\ po.daysUntilDue > 5 /\ po.appointment = None

\* the reasons the claim gives for an order
ExpectedReasons(po) ==
  IF po.daysUntilDue > 5 THEN <<>>
  ELSE (IF po.edi # Some(TRUE) THEN <<"No EDI confirmation">> ELSE <<>>)
       \o (IF po.appointment = None THEN <<"No appointment">> ELSE <<>>)

\* C2: the urgent reasons of every emitted purchase order are determined by
\* (daysUntilDue, edi, appointment): none when due later than 5 days, else
\* "No EDI confirmation" iff edi is not true, then "No appointment" iff the
\* appointment is null, and nothing else
C2_UrgentReasons == \A po \in POs : po.urgentReasons = ExpectedReasons(po)

\* a finished parse that emitted an order with both reasons, the EDI reason
\* first, and an order due later than 5 days with no reason
C2_Witness ==
  /\ pc = "done"
  /\ \E po \in POs : po.urgentReasons = <<"No EDI confirmation", "No appointment">>
  /\ \E po \in POs : po.urgentReasons = <<>> /\ po.daysUntilDue > 5


(***************************************************************************)
(* Properties of the line loops, stated against the source lines           *)
(***************************************************************************)
\* the source line at the 1-based position j
SrcLine(j) == Catalog[text[j]]

\* the vendor headers before the line j
HeadersBefore(j) == {h \in 1..(j - 1) : parseVendorLine(SrcLine(h)) # None}

\* the vendor of the nearest vendor header before the line j, when there is one
NearestVendor(j) ==
  parseVendorLine(SrcLine(CHOOSE h \in HeadersBefore(j) : \A g \in HeadersBefore(j) : g <= h))

\* the PO data lines of the text
POLines == {j \in 1..Len(text) : isPODataLine(SrcLine(j))}

\* the PO number a PO data line carries
PONumberAt(j) == SplitWs(Trim(SrcLine(j)))[1]

\* the lines parseAllPOs has gone through
POsProcessed == IF pc = "pos" THEN 1..i ELSE IF pc = "done" THEN 1..Len(text) ELSE {}

\* the first of the lines J that carries the PO number num
FirstWith(J, num) ==
  CHOOSE j \in J : PONumberAt(j) = num /\ \A g \in J : PONumberAt(g) = num => j <= g

\* the statement of C3 as written: the record kept for a number is the one
\* built from the first PO data line of the text that carries the number
C3_FirstPOLineKept ==
  /\ \A a, b \in DOMAIN purchaseOrders :
       a # b => purchaseOrders[a].poNumber # purchaseOrders[b].poNumber
  /\ \A k \in DOMAIN purchaseOrders :
       poSrc[k] = FirstWith(POLines, purchaseOrders[k].poNumber)

\* the PO data lines that follow a vendor header
AttributedPOLines == {j \in POLines : HeadersBefore(j) # {}}

\* C3 (amended): no two purchase orders share a PO number; every PO data line
\* gone through after a vendor header has its number among the records; and
\* the record kept for a number is the one built from the first PO data line
\* following a vendor header that carries the number, with that line's
\* vendor, whatever same-numbered lines come later
C3_FirstAttributedPOLineKept ==
  /\ \A a, b \in DOMAIN purchaseOrders :
       a # b => purchaseOrders[a].poNumber # purchaseOrders[b].poNumber
  /\ \A j \in AttributedPOLines \cap POsProcessed :
       \E k \in DOMAIN purchaseOrders : purchaseOrders[k].poNumber = PONumberAt(j)
  /\ \A k \in DOMAIN purchaseOrders :
       LET first == FirstWith(AttributedPOLines, purchaseOrders[k].poNumber)
       IN  /\ poSrc[k] = first
           /\ Some(purchaseOrders[k])
                = parsePOLine(SrcLine(first), NearestVendor(first)[1], reportDate)

\* a finished parse of a text in which two different PO lines under two
\* different vendors carry the same number, of which one record was kept
C3_Witness ==
  /\ pc = "done"
  /\ \E j, g \in AttributedPOLines :
       /\ j < g
       /\ PONumberAt(j) = PONumberAt(g)
       /\ SrcLine(j) # SrcLine(g)
       /\ NearestVendor(j) # NearestVendor(g)
       /\ \E k \in DOMAIN purchaseOrders : poSrc[k] = j

\* C4: every item, purchase-order and special-order record emitted from the
\* source line k carries the id and the name parsed from the nearest vendor
\* header before line k
C4_NearestVendor ==
  /\ \A k \in DOMAIN items :
       /\ HeadersBefore(itemSrc[k]) # {}
       /\ [id |-> items[k].vendorId, name |-> items[k].vendorName]
            = NearestVendor(itemSrc[k])[1]
  /\ \A k \in DOMAIN purchaseOrders :
       /\ HeadersBefore(poSrc[k]) # {}
       /\ [id |-> purchaseOrders[k].vendorId, name |-> purchaseOrders[k].vendorName]
            = NearestVendor(poSrc[k])[1]
  /\ \A k \in DOMAIN specialOrders :
       /\ HeadersBefore(soSrc[k]) # {}
       /\ [id |-> specialOrders[k].vendorId, name |-> specialOrders[k].vendorName]
            = NearestVendor(soSrc[k])[1]

\* a finished parse that emitted an item after two headers of different
\* vendors, the nearer one being the record's
C4_Witness ==
  /\ pc = "done"
  /\ \E k \in DOMAIN items :
       \E h \in HeadersBefore(itemSrc[k]) :
         parseVendorLine(SrcLine(h)) # NearestVendor(itemSrc[k])


\* the lines parseAllLines has gone through
LinesProcessed ==
  IF pc = "lines" THEN 1..i ELSE IF pc \in {"pos", "done"} THEN 1..Len(text) ELSE {}

\* the lines gone through that pass the item-line candidate filter: no
\* vendor header, not skipped, shaped as an item line
ItemCandidates ==
  {j \in LinesProcessed : /\ parseVendorLine(SrcLine(j)) = None
                        /\ ~shouldSkipLine(SrcLine(j))
                        /\ isItemLine(SrcLine(j))}

\* C7: every item-line candidate parseAllLines has gone through while no
\* vendor header had been seen has exactly one error, which names its
\* 1-based line number, and no item record; no other line has an error
C7_ItemBeforeVendor ==
  /\ \A j \in ItemCandidates :
       HeadersBefore(j) = {} =>
         /\ Cardinality({k \in DOMAIN errors : errors[k].line = j}) = 1
         /\ \A k \in DOMAIN errors :
              errors[k].line = j => errors[k].msg = "Item found before vendor declaration"
         /\ \A k \in DOMAIN items : itemSrc[k] # j
  /\ \A k \in DOMAIN errors :
       errors[k].line \in ItemCandidates /\ HeadersBefore(errors[k].line) = {}

\* a finished parse of a text with an item line before the first vendor
\* header and an item line after it: one error, one item
C7_Witness ==
  /\ pc = "done"
  /\ \E j \in ItemCandidates, g \in ItemCandidates :
       /\ HeadersBefore(j) = {}
       /\ HeadersBefore(g) # {}
       /\ \E k \in DOMAIN errors : errors[k].line = j
       /\ \E k \in DOMAIN items : itemSrc[k] = g

(***************************************************************************)
(* Properties of parsePdf                                                  *)
(***************************************************************************)
RECURSIVE TextLength(_)
\* the length of the text whose lines are numbered t, line feeds included
TextLength(t) ==
  IF Len(t) = 0 THEN 0
  ELSE Len(Catalog[t[1]]) + (IF Len(t) > 1 THEN 1 ELSE 0) + TextLength(Tail(t))

\* a line holds a vendor marker, a product-header marker, or is shaped as an
\* item line
HasMarker(ln) ==
  \/ TestAny(Lit(<<"V", "E", "N", "D", "O", "R", ":">>) \o Star(Space) \o Plus(Digit),
             UpperStr(ln))
  \/ TestAny(Lit(<<"P", "R", "O", "D", "#">>), UpperStr(ln))
  \/ TestStart(Rep(Alnum, 2, 8) \o Plus(Space) \o Lit(<<"C", "S">>), UpperStr(ln))
  \/ TestStart(Rep(Alnum, 2, 8) \o Plus(Space) \o Lit(<<"S", "/", "O">>), UpperStr(ln))

\* the text is shorter than 100 characters or holds no marker
Insufficient == TextLength(text) < 100 \/ \A j \in 1..Len(text) : ~HasMarker(SrcLine(j))

\* C9: parsePdf rejects exactly the texts that are shorter than 100
\* characters or hold none of a vendor marker, a product-header marker and
\* an item-shaped line; a rejected call returns nothing and has parsed no
\* line, and line parsing is entered only on a text that passes
C9_RejectInsufficient ==
  /\ pc = "rejected" =>
       /\ Insufficient
       /\ result = None
       /\ items = <<>> /\ purchaseOrders = <<>> /\ specialOrders = <<>>
  /\ pc \in {"lines", "pos", "done"} => ~Insufficient

\* a rejected call on a text of 100 characters or more that holds no marker
C9_Witness == pc = "rejected" /\ TextLength(text) >= 100


\* the second call has finished
SecondCallOver == call = 2 /\ pc \in {"done", "rejected"}

\* C10: the second call of parsePdf on a text ends as the first did, with the
\* same items, special orders, errors and item statistics and the same
\* purchase-order numbers whatever the clock read, and with the same
\* response altogether when the two calls took the same report date
C10_Idempotent ==
  SecondCallOver =>
    /\ prev[1].pc = pc
    /\ pc = "done" =>
         /\ result[1].items = prev[1].result[1].items
         /\ result[1].specialOrders = prev[1].result[1].specialOrders
         /\ result[1].parseErrors = prev[1].result[1].parseErrors
         /\ result[1].stats = prev[1].result[1].stats
         /\ [k \in DOMAIN result[1].purchaseOrders |-> result[1].purchaseOrders[k].poNumber]
              = [k \in DOMAIN prev[1].result[1].purchaseOrders |->
                   prev[1].result[1].purchaseOrders[k].poNumber]
         /\ reportDate = prev[1].reportDate => result = prev[1].result

\* a second call that returned items, purchase orders and special orders
\* or errors, having read another clock than the first
C10_Witness ==
  /\ SecondCallOver
  /\ pc = "done"
  /\ reportDate # prev[1].reportDate
  /\ result[1].purchaseOrders # <<>>
  /\ result[1].purchaseOrders # prev[1].result[1].purchaseOrders

(***************************************************************************)
(* Properties of the catch blocks                                          *)
(***************************************************************************)
\* the vendor headers before the line j that did not throw in the loop
HeadersKept(loop, j) == {h \in HeadersBefore(j) : <<loop, h>> \notin thrown}

\* every exception has exactly one error with its line number and no record
CaughtOnce ==
  \A t \in thrown :
    IF t[1] = "lines"
    THEN /\ Cardinality({k \in DOMAIN errors : errors[k].line = t[2]}) = 1
         /\ \A k \in DOMAIN errors : errors[k].line = t[2] => errors[k].msg = "Parse error"
         /\ \A k \in DOMAIN items : itemSrc[k] # t[2]
    ELSE /\ Cardinality({k \in DOMAIN poErrors : poErrors[k].line = t[2]}) = 1
         /\ \A k \in DOMAIN poErrors :
              poErrors[k].line = t[2] => poErrors[k].msg = "PO parse error"
         /\ \A k \in DOMAIN purchaseOrders : poSrc[k] # t[2]
         /\ \A k \in DOMAIN specialOrders : soSrc[k] # t[2]

\* the lines that did not throw are processed: each item candidate gone
\* through under a vendor has its item, each PO data line gone through under
\* a vendor has its number among the purchase orders
OthersProcessed ==
  /\ \A j \in ItemCandidates :
       (<<"lines", j>> \notin thrown /\ HeadersKept("lines", j) # {})
         => \E k \in DOMAIN items : itemSrc[k] = j
  /\ \A j \in POLines \cap POsProcessed :
       (<<"pos", j>> \notin thrown /\ HeadersKept("pos", j) # {})
         => \E k \in DOMAIN purchaseOrders : purchaseOrders[k].poNumber = PONumberAt(j)

\* a call that is over has gone through every line and returned
Returned == pc = "done" => i = Len(text) /\ result # None

\* a step that throws keeps every record and moves to the next line of the
\* same loop
ThrowKeeps ==
  thrown' # thrown =>
    /\ items' = items
    /\ purchaseOrders' = purchaseOrders
    /\ specialOrders' = specialOrders
    /\ pc' = pc
    /\ i' = i + 1

\* C8: an exception on line k appends exactly one error with line number k
\* and emits no record for line k, the records emitted before are kept, the
\* lines after k are processed, and the call goes through both loops to the
\* last line and returns
C8_CatchAndContinue ==
  /\ [](CaughtOnce /\ OthersProcessed /\ Returned)
  /\ [][ThrowKeeps]_vars
  /\ (pc = "lines" ~> pc = "done")

\* a finished call in which a line threw in parseAllPOs between two lines
\* that each gave a purchase order
C8_Witness ==
  /\ pc = "done"
  /\ \E t \in thrown :
       /\ t[1] = "pos"
       /\ \E a, b \in DOMAIN purchaseOrders : poSrc[a] < t[2] /\ t[2] < poSrc[b]
       /\ \E k \in DOMAIN poErrors : poErrors[k].line = t[2]

(***************************************************************************)
(* Properties of the field recoverers                                      *)
(***************************************************************************)
\* C5: an item record returned by parseItemLine, of parse.ts or of
\* lineParser.ts, with confidence high has its days of supply; a record
\* without days of supply has confidence low and carries the note that says so
C5_HighHasDaysSply ==
  (ret # None /\ ret[1].fn \in {"parseItemLine", "lineParser.parseItemLine"}) =>
    /\ ret[1].val.confidence = "high" => ret[1].val.daysSply # None
    /\ ret[1].val.daysSply = None =>
         /\ ret[1].val.confidence = "low"
         /\ \E k \in DOMAIN ret[1].val.parseNotes :
              ret[1].val.parseNotes[k] = "DaysSply is null - needs review"

\* parseItemLine returned a record without days of supply whose four fixed
\* fields parsed
C5_Witness ==
  /\ ret # None
  /\ ret[1].fn = "parseItemLine"
  /\ ret[1].val.daysSply = None
  /\ ret[1].val.ip # None /\ ret[1].val.slot # None
  /\ ret[1].val.mrkCst # None /\ ret[1].val.lndCst # None

\* one of the four fixed tail fields of a parseTail result failed to parse
FixedFailed(val) ==
  val.ip = None \/ val.slot = None \/ val.mrkCst = None \/ val.lndCst = None

\* C6: the confidence parseTail returns is low if a fixed tail field failed
\* or the numeric run has fewer than 5 columns, medium if none failed and
\* the run has 5 or 6, high if none failed and the run has 7 or more; when
\* none failed the run is the numeric columns of the line
C6_ThreeTiers ==
  (ret # None /\ ret[1].fn = "parseTail") =>
    LET val == ret[1].val
        k == val.numericColumns
    IN  /\ val.confidence = IF FixedFailed(val) \/ k < 5 THEN "low"
                            ELSE IF k <= 6 THEN "medium"
                            ELSE "high"
        /\ ~FixedFailed(val) => k = arg[1].runLen

\* parseTail returned low for a line with a failed fixed field and a run of
\* 7 or more columns
C6_Witness ==
  /\ ret # None
  /\ ret[1].fn = "parseTail"
  /\ FixedFailed(ret[1].val)
  /\ ret[1].val.numericColumns >= 7
  /\ ret[1].val.confidence = "low"


(***************************************************************************)
(* Properties of the tail field recoverers                                 *)
(***************************************************************************)
\* C11: parseTail of lineParser.ts, given only the four fixed tail fields
\* (landed cost, market cost, slot, IP) and nothing to their left, returns
\* confidence low and at least one note
C11_FourFieldsOnlyLow ==
  (/\ ret # None
   /\ ret[1].fn = "lineParser.parseTail"
   /\ Len(arg[1].tokens) = 4
   /\ ~FixedFailed(ret[1].val))
    => /\ ret[1].val.confidence = "low"
       /\ Len(ret[1].val.notes) >= 1


\* the number of tokens the fixed fields of a parseTail result took
FixedTaken(val) ==
  Cardinality({f \in {"ip", "slot", "mrkCst", "lndCst"} : val[f] # None})

\* is the token an integer or a decimal
IsNumeric(token) == isInteger(token) \/ isFloat(token)

C13_RunColumns ==
  (ret # None /\ ret[1].fn = "parseTail") =>
    LET val == ret[1].val
        tokens == arg[1].tokens
        p == Len(tokens) - FixedTaken(val)
        k == val.numericColumns
    IN  /\ ~FixedFailed(val) => k = arg[1].runLen
        /\ k >= 9 => /\ val.onOrder = Some(parseInt(tokens[p - 1]))
                     /\ val.avail = Some(parseInt(tokens[p - 2]))
                     /\ val.avg = Some(parseInt(tokens[p - 3]))
        /\ k = 8 => /\ val.avail = Some(parseInt(tokens[p - 1]))
                    /\ val.avg = Some(parseInt(tokens[p - 2]))
                    /\ val.onOrder = None
        /\ k = 7 => /\ val.avail = Some(parseInt(tokens[p - 1]))
                    /\ val.onOrder = None
                    /\ val.avg = None
        /\ val.onOrder # None => k >= 9

\* parseTail read on-order, available and average off a run of 9 columns
\* 21 .. 29
C13_Witness ==
  /\ ret # None
  /\ ret[1].fn = "parseTail"
  /\ ret[1].val.numericColumns = 9
  /\ ret[1].val.onOrder = Some(28)
  /\ ret[1].val.avail = Some(27)
  /\ ret[1].val.avg = Some(26)
  /\ ret[1].val.daysSply = Some([m |-> 29, e |-> 0])


\* parseTail, of parse.ts or of lineParser.ts, returned for a line of at
\* least 4 tokens
TailReturned ==
  /\ ret # None
  /\ ret[1].fn \in {"parseTail", "lineParser.parseTail"}
  /\ Len(arg[1].tokens) >= 4

\* the rightmost token of the line parseTail was applied to
LastToken == arg[1].tokens[Len(arg[1].tokens)]

\* C14 as claimed: a rightmost token that is a decimal followed by a dash
\* gives the negated decimal as item-priority score, a decimal without the
\* dash gives the non-negative decimal
C14_DashNegates ==
  TailReturned =>
    /\ LastToken = <<"4", ".", "4", "-">> => ret[1].val.ip = Some([m |-> -44, e |-> 1])
    /\ LastToken = <<"4", ".", "4">> => ret[1].val.ip = Some([m |-> 44, e |-> 1])

\* C14 as amended: a rightmost token that is a decimal followed by a dash
\* gives the decimal itself as item-priority score, never a negative number:
\* the dash is stripped and dropped, and the score equals the one of the
\* token without the dash
C14_DashDropped ==
  TailReturned =>
    /\ LastToken = <<"4", ".", "4", "-">> => ret[1].val.ip = Some([m |-> 44, e |-> 1])
    /\ LastToken = <<"4", ".", "4">> => ret[1].val.ip = Some([m |-> 44, e |-> 1])
    /\ ret[1].val.ip # None => ret[1].val.ip[1].m >= 0

\* parseTail returned the score 4.4 for a line that ends in 4.4-
C14_Witness ==
  /\ TailReturned
  /\ ret[1].fn = "parseTail"
  /\ LastToken = <<"4", ".", "4", "-">>
  /\ ret[1].val.ip = Some([m |-> 44, e |-> 1])


\* the fields of a parseTail result other than the notes
TailFields == {"ip", "slot", "mrkCst", "lndCst", "daysSply", "onOrder", "avail", "avg",
               "confidence"}

\* C15: parseTail returns the same confidence and the same ip, slot, mrkCst,
\* lndCst, daysSply, onOrder, avail and avg for a token list whether it is
\* told the line is a special order or not; a special-order line with a run
\* of 7 or more columns and no failed fixed field is high
C15_SpecialOrderFlagIgnored ==
  (ret # None /\ ret[1].fn = "parseTail both ways") =>
    /\ \A f \in TailFields : ret[1].val.so[f] = ret[1].val.plain[f]
    /\ (arg[1].runLen >= 7 /\ ~FixedFailed(ret[1].val.so))
         => ret[1].val.so.confidence = "high"

\* parseTail returned high for a special-order line with a run of 7 or more
\* columns, with another note than for the same tokens not a special order
C15_Witness ==
  /\ ret # None
  /\ ret[1].fn = "parseTail both ways"
  /\ arg[1].runLen >= 7
  /\ ret[1].val.so.confidence = "high"
  /\ ret[1].val.so.notes # ret[1].val.plain.notes


(***************************************************************************)
(* Properties of the line loops                                            *)
(***************************************************************************)
\* is the sequence of line numbers strictly increasing
Increasing(src) == \A a, b \in DOMAIN src : a < b => src[a] < src[b]

\* is the sequence old the beginning of the sequence new
StartsWith(new, old) ==
  Len(new) >= Len(old) /\ \A k \in DOMAIN old : new[k] = old[k]

\* every record is the record of the source line noted for it, and the
\* source lines of each sequence increase
InSourceOrder ==
  /\ Len(itemSrc) = Len(items) /\ Increasing(itemSrc)
  /\ \A k \in DOMAIN items : items[k].rawLine = Trim(SrcLine(itemSrc[k]))
  /\ Len(poSrc) = Len(purchaseOrders) /\ Increasing(poSrc)
  /\ \A k \in DOMAIN purchaseOrders : purchaseOrders[k].poNumber = PONumberAt(poSrc[k])
  /\ Len(soSrc) = Len(specialOrders) /\ Increasing(soSrc)
  /\ \A k \in DOMAIN specialOrders :
       specialOrders[k].prodNo = SplitWs(Trim(SrcLine(soSrc[k])))[1]
  /\ pc = "done" => /\ result[1].items = items
                    /\ result[1].purchaseOrders = purchaseOrders
                    /\ result[1].specialOrders = specialOrders

\* a step keeps the records emitted so far, in their places
EmittedKept ==
  /\ StartsWith(items', items)
  /\ StartsWith(purchaseOrders', purchaseOrders)
  /\ StartsWith(specialOrders', specialOrders)

\* C16: items, purchaseOrders and specialOrders are each in the order of
\* the source lines their records come from, and no step reorders or
\* removes a record already emitted
C16_SourceOrder == [](InSourceOrder) /\ [][EmittedKept]_vars

\* parsePdf returned two purchase orders, from the lines 2 and 4
C16_Witness ==
  /\ pc = "done"
  /\ poSrc = <<2, 4>>
  /\ Len(result[1].purchaseOrders) = 2


\* the numbers of the lines noted in a sequence of source lines
Sources(src) == {src[k] : k \in DOMAIN src}

\* C17: no source line gives both an item record (parseAllLines) and a
\* purchase-order record (parseAllPOs) in the result of parsePdf
C17_ItemOrPONotBoth ==
  pc = "done" => Sources(itemSrc) \cap Sources(poSrc) = {}

\* C18: a line that matches a skip pattern gives no record of any kind,
\* whatever the vendor and the section at that line
C18_SkippedGivesNothing ==
  \A j \in Sources(itemSrc) \cup Sources(poSrc) \cup Sources(soSrc) :
    ~shouldSkipLine(SrcLine(j))


\* the vendors of the vendor headers of the catalogue, as written in them
HeaderVendors ==
  [k \in {1, 2} |->
     IF k = 1
     THEN [id |-> <<"0", "0", "0", "0", "1", "7", "4", "0">>,
           name |-> <<"F", "R", "I", "T", "O", " ", "L", "A", "Y">>]
     ELSE [id |-> <<"0", "0", "0", "0", "2", "2", "2", "2">>,
           name |-> <<"A", "C", "M", "E">>]]

\* parseAllPOs processes the line i + 1 in this step
POLineStep == pc = "pos" /\ i < Len(text) /\ i' = i + 1

\* the step leaves the records and errors of parseAllPOs as they were
NothingEmitted ==
  /\ purchaseOrders' = purchaseOrders
  /\ specialOrders' = specialOrders
  /\ poErrors' = poErrors

\* the step processes a vendor header: it ends with the vendor of the header,
\* outside the special-order section, and emits nothing
HeaderResets ==
  POLineStep /\ VendorMatch(line) # None
    => /\ text[i + 1] \in DOMAIN HeaderVendors
       /\ currentVendor' = Some(HeaderVendors[text[i + 1]])
       /\ inSpecialOrderSection' = FALSE
       /\ NothingEmitted

\* within parseAllPOs a vendor, once there, stays
VendorStays ==
  pc = "pos" /\ pc' = "pos" /\ currentVendor # None => currentVendor' # None

\* C19: in parseAllPOs a vendor-header line, from any vendor and section
\* state, leaves the new vendor as current vendor and the special-order
\* section left, and emits no record; once there is a vendor there is one
\* until parseAllPOs returns
C19_HeaderResets == [][HeaderResets /\ VendorStays]_vars

\* the second vendor header was processed with the first vendor current and
\* the special-order section open
C19_Witness ==
  /\ pc = "pos" /\ i = 3
  /\ text[1] = 1 /\ text[2] = 6 /\ text[3] = 2
  /\ currentVendor = Some(HeaderVendors[2])
  /\ ~inSpecialOrderSection

\* the step processes a special-order section header: the flag is set and
\* the vendor, the seen PO numbers, the records and the errors are as before
SOHeaderSetsFlag ==
  POLineStep /\ VendorMatch(line) = None /\ isSpecialOrderHeader(line)
    => /\ inSpecialOrderSection' = TRUE
       /\ currentVendor' = currentVendor
       /\ seenPONumbers' = seenPONumbers
       /\ NothingEmitted

\* C20: in parseAllPOs a special-order section-header line sets the section
\* flag and changes neither the current vendor, nor the seen PO numbers, nor
\* the purchase orders, special orders and errors collected so far
C20_SOHeaderFrame == [][SOHeaderSetsFlag]_vars

\* the special-order header was processed after a purchase order of the
\* current vendor
C20_Witness ==
  /\ pc = "pos" /\ i = 3
  /\ text[1] = 1 /\ text[2] = 4 /\ text[3] = 6
  /\ inSpecialOrderSection
  /\ currentVendor = Some(HeaderVendors[1])
  /\ Len(purchaseOrders) = 1 /\ Cardinality(seenPONumbers) = 1

\* a line that is a rule of "=" or of "-" only
IsDivider(ln) ==
  LET t == Trim(ln)
  IN  /\ Len(t) > 0
      /\ \/ \A k \in DOMAIN t : t[k] = "="
         \/ \A k \in DOMAIN t : t[k] = "-"

\* the lines that the claim says end the special-order section: subtotal,
\* column header and divider lines
EndsSection(ln) == isSectionExit(ln) \/ IsDivider(ln)

\* parseAllPOs processes, inside the special-order section, a line that is
\* neither a vendor header nor a section header
InSectionStep ==
  /\ POLineStep /\ inSpecialOrderSection
  /\ VendorMatch(line) = None /\ ~isSpecialOrderHeader(line)

\* the section headers before the line j
SOHeadersBefore(j) ==
  {h \in 1..(j - 1) : VendorMatch(SrcLine(h)) = None /\ isSpecialOrderHeader(SrcLine(h))}

\* no special order comes from a line that follows a line ending the section
\* with no section header in between
NoneAfterEnd ==
  \A j \in Sources(soSrc) :
    \A e \in 1..(j - 1) :
      EndsSection(SrcLine(e)) => \E h \in SOHeadersBefore(j) : h > e

\* C21: inside the special-order section a subtotal line, a column-header
\* line and a divider line each leave the section, and no line after it gives
\* a special order until the next section header
C21_SectionLeft ==
  /\ [][InSectionStep /\ EndsSection(line) => ~inSpecialOrderSection']_vars
  /\ []NoneAfterEnd

\* the part of C21 the code has: subtotal and column-header lines
SectionLeftOnExit ==
  /\ [][InSectionStep /\ isSectionExit(line) => ~inSpecialOrderSection']_vars
  /\ [](\A j \in Sources(soSrc) : \A e \in 1..(j - 1) :
         isSectionExit(SrcLine(e)) => \E h \in SOHeadersBefore(j) : h > e)


\* the line j follows a vendor header, and a section header with no vendor
\* header after it
InSectionUnderVendor(j) ==
  /\ HeadersBefore(j) # {}
  /\ \E h \in SOHeadersBefore(j) : \A v \in HeadersBefore(j) : v < h

\* C22: a special order is added only by a step that starts inside the
\* special-order section with a vendor seen; lines outside the section or
\* before any vendor header add nothing to specialOrders
C22_SOOnlyInSection ==
  /\ [][specialOrders' # specialOrders /\ pc = "pos"
          => /\ POLineStep /\ inSpecialOrderSection /\ currentVendor # None
             /\ soSrc' = Append(soSrc, i + 1)]_vars
  /\ [](\A j \in Sources(soSrc) : InSectionUnderVendor(j))

\* a special order came from the line after a vendor header and a section
\* header
C22_Witness ==
  /\ pc = "done"
  /\ text[1] = 1 /\ text[2] = 6 /\ text[3] = 7
  /\ soSrc = <<3>>
  /\ Len(result[1].specialOrders) = 1

\* C23: a PO data line that follows a vendor header and carries a PO number
\* not seen before gives a purchase order, inside the special-order section as
\* outside it and with or without a PO summary header before it, and never a
\* special order
C23_POAnySection ==
  /\ \A j \in AttributedPOLines \cap POsProcessed :
       j = FirstWith(AttributedPOLines, PONumberAt(j)) => j \in Sources(poSrc)
  /\ Sources(soSrc) \cap AttributedPOLines = {}

\* a PO line gave a purchase order inside the special-order section, with no
\* PO summary header in the text
C23_Witness ==
  /\ pc = "done"
  /\ text[1] = 1 /\ text[2] = 6 /\ text[3] = 4 /\ text[4] = 7
  /\ poSrc = <<3>>
  /\ soSrc = <<4>>

(***************************************************************************)
(* Properties of the line classifiers                                      *)
(***************************************************************************)
\* the function applied and the tokens it was applied to
Applied(fn) == ret # None /\ ret[1].fn = fn

ArgTokens == arg[1].tokens

\* is the token date-shaped, NN/NN/NN
IsDateToken(tok) == TestWhole(DATE_PATTERN, tok)

\* the acceptance the claim states for a PO data line: 5 digits, a date, an
\* integer, and a remainder that starts with the status marker "Conf:" or
\* holds a date or a time of day
ClaimedPODataLine(toks) ==
  /\ Len(toks) >= 3
  /\ TestWhole(Rep(Digit, 5, 5), toks[1])
  /\ IsDateToken(toks[2])
  /\ isInteger(toks[3])
  /\ \/ Len(toks) >= 4 /\ TestStart(Lit(<<"C", "O", "N", "F", ":">>), UpperStr(toks[4]))
     \/ \E k \in 4..Len(toks) : IsDateToken(toks[k]) \/ TestWhole(TIME_PATTERN, toks[k])

\* C25: isPODataLine accepts a line if and only if its first token is 5
\* digits, its second a date, its third an integer, and its remainder starts
\* with a status marker or holds one more date or a time of day
C25_PODataLineIff ==
  Applied("isPODataLine") => (ret[1].val <=> ClaimedPODataLine(ArgTokens))


\* what isPODataLine of src/api/parse.ts accepts, on token lists: 5 digits,
\* a date, an integer of at most 5 digits, a fourth token, and "Conf:"
\* somewhere in the remainder, or 3 dates on the line, or a time of day
PODataLineAsCoded ==
  Applied("isPODataLine") =>
    (ret[1].val <=>
       /\ Len(ArgTokens) >= 4
       /\ TestWhole(Rep(Digit, 5, 5), ArgTokens[1])
       /\ IsDateToken(ArgTokens[2])
       /\ TestWhole(Rep(Digit, 1, 5), ArgTokens[3])
       /\ \/ \E k \in 4..Len(ArgTokens) : Includes(UpperStr(ArgTokens[k]), <<"C", "O", "N", "F", ":">>)
          \/ Cardinality({k \in 2..Len(ArgTokens) : IsDateToken(ArgTokens[k])}) >= 3
          \/ \E k \in 4..Len(ArgTokens) : TestWhole(TIME_PATTERN, ArgTokens[k]))

\* the tokens after the third, upper-cased: the remainder of a PO line
Remainder(toks) == [k \in 1..(Len(toks) - 3) |-> UpperStr(toks[k + 3])]

\* the EDI flag the claim gives a PO line: true when the status (the first
\* token of the remainder) contains EDI or a token of the remainder is Yes,
\* else false when a token is No, else unknown
ClaimedEdi(toks) ==
  LET rem == Remainder(toks)
  IN  IF Includes(rem[1], <<"E", "D", "I">>) \/ \E k \in DOMAIN rem : rem[k] = <<"Y", "E", "S">>
      THEN Some(TRUE)
      ELSE IF \E k \in DOMAIN rem : rem[k] = <<"N", "O">>
      THEN Some(FALSE)
      ELSE None

\* C24: the EDI flag parsePOLine gives is true if the status contains the EDI
\* marker or the remainder contains Yes, else false if the remainder contains
\* No, else null; a status "Conf:" without EDI and with neither Yes nor No
\* gives null
C24_EdiTriState ==
  Applied("parsePOLine") /\ ret[1].val # None
    => ret[1].val[1].edi = ClaimedEdi(ArgTokens)

\* the part of C24 the code has: the lines whose status is not a "Conf:"
\* without EDI, which get false where the claim's rule leaves the flag unknown
EdiTriStateButConf ==
  Applied("parsePOLine") /\ ret[1].val # None
    => ret[1].val[1].edi =
         IF /\ TestStart(Lit(<<"C", "O", "N", "F", ":">>), Remainder(ArgTokens)[1])
            /\ ClaimedEdi(ArgTokens) = None
         THEN Some(FALSE)
         ELSE ClaimedEdi(ArgTokens)


\* how many of the last 6 tokens are decimals, with a trailing dash or not
DecimalsInLast6(toks) ==
  Cardinality({k \in DOMAIN toks :
                 /\ k > Len(toks) - 6
                 /\ TestWhole(Plus(Digit) \o Lit(<<".">>) \o Plus(Digit) \o Rep({"-"}, 0, 1), toks[k])})

\* C27: isItemLine accepts a line if and only if its first token is 2 to 8
\* letters or digits, it has at least 6 tokens, and at least 2 of its last 6
\* tokens are decimals; a line of 6 or 7 tokens with the rest met is accepted
C27_ItemLineIff ==
  Applied("isItemLine") =>
    (ret[1].val <=> /\ TestWhole(Rep(Alnum, 2, 8), ArgTokens[1])
                    /\ Len(ArgTokens) >= 6
                    /\ DecimalsInLast6(ArgTokens) >= 2)

\* what isItemLine accepts: the same with at least 8 tokens
ItemLineFrom8 ==
  Applied("isItemLine") =>
    (ret[1].val <=> /\ TestWhole(Rep(Alnum, 2, 8), ArgTokens[1])
                    /\ Len(ArgTokens) >= 8
                    /\ DecimalsInLast6(ArgTokens) >= 2)


\* is the token an integer or a decimal
IsNumber(tok) ==
  \/ TestWhole(Plus(Digit), tok)
  \/ TestWhole(Plus(Digit) \o Lit(<<".">>) \o Plus(Digit) \o Rep({"-"}, 0, 1), tok)

\* the tokens of the front of the item line of FrontInputs: the description
\* starts at the token 6, after the brand
HasItemFront(toks) == Len(toks) >= 6 /\ SubSeq(toks, 1, 5) = SubSeq(ItemFront(FALSE), 1, 5)

\* the first position from 6 on of a bare integer followed by at least n
\* numeric tokens among the next w tokens, or Len(toks) + 1
StopAt(toks, n, w) ==
  LET stops == {p \in 6..Len(toks) :
                  /\ TestWhole(Plus(Digit), toks[p])
                  /\ Cardinality({q \in (p + 1)..(p + w) :
                                    q <= Len(toks) /\ IsNumber(toks[q])}) >= n}
  IN  IF stops = {} THEN Len(toks) + 1
      ELSE CHOOSE p \in stops : \A q \in stops : p <= q

\* parseFront gave the description that ends before the position stop, and
\* the token at stop as ytd
FrontStopsAt(stop) ==
  /\ ret[1].val.description = JoinWith(SubSeq(ArgTokens, 6, stop - 1), <<" ">>)
  /\ ret[1].val.ytd = IF stop <= Len(ArgTokens) THEN Some(parseInt(ArgTokens[stop])) ELSE None

\* the statement of C26 as written: parseFront ends the description at the
\* first token after the brand that is a bare integer followed by at least 2
\* numeric tokens among the next 4
C26_StopsOnTwoOfNextFour ==
  Applied("parseFront") /\ HasItemFront(ArgTokens)
    => FrontStopsAt(StopAt(ArgTokens, 2, 4))

\* C26 (amended): parseFront ends the description at the first token after
\* the brand that is a bare integer followed by at least 1 numeric token
\* among the next 3; that token is ytd and the description is the tokens
\* before it; a bare integer with no numeric token among the next 3 stays in
\* the description
C26_DescriptionStop ==
  Applied("parseFront") /\ HasItemFront(ArgTokens)
    => FrontStopsAt(StopAt(ArgTokens, 1, 3))

\* parseFront took as ytd an integer followed by one numeric token among the
\* next 3 tokens, and by no other
C26_Witness ==
  /\ Applied("parseFront")
  /\ ArgTokens = ItemFront(FALSE) \o << <<"1", "2">>, <<"M", "I", "X">>, <<"4", ".", "5">> >>
  /\ ret[1].val.ytd = Some(12)
  /\ ret[1].val.description = <<"C", "H", "I", "P">>


(***************************************************************************)
(* Properties of the statistics                                            *)
(***************************************************************************)
\* the purchase orders of the response, among those that satisfy due, that
\* have no EDI confirmation, and that have no appointment
NoEdiAmong(due(_)) ==
  Cardinality({k \in DOMAIN result[1].purchaseOrders :
                 LET po == result[1].purchaseOrders[k]
                 IN  due(po) /\ po.edi # Some(TRUE)})

NoAppointmentAmong(due(_)) ==
  Cardinality({k \in DOMAIN result[1].purchaseOrders :
                 LET po == result[1].purchaseOrders[k]
                 IN  due(po) /\ po.appointment = None})

AnyDue(po) == TRUE

DueInWindow(po) == po.daysUntilDue <= URGENT_WINDOW_DAYS

\* C28 as stated: missingEDICount is the number of purchase orders of the
\* response whose edi is not true and missingAppointmentCount the number
\* without an appointment, counted over all purchase orders of the response
C28_CountsOverAll ==
  pc = "done" =>
    /\ result[1].poStats.missingEDICount = NoEdiAmong(AnyDue)
    /\ result[1].poStats.missingAppointmentCount = NoAppointmentAmong(AnyDue)

\* C28: missingEDICount is the number of purchase orders due within the urgency
\* window whose edi is not true, and missingAppointmentCount the number due
\* within the window that have no appointment
C28_MissingCounts ==
  pc = "done" =>
    /\ result[1].poStats.missingEDICount = NoEdiAmong(DueInWindow)
    /\ result[1].poStats.missingAppointmentCount = NoAppointmentAmong(DueInWindow)

\* a response with an order without appointment due after the window that is
\* not counted, next to an unconfirmed order within the window that is
C28_Witness ==
  /\ pc = "done"
  /\ NoAppointmentAmong(AnyDue) > NoAppointmentAmong(DueInWindow)
  /\ result[1].poStats.missingEDICount > 0


\* the indices of the items given to calculateStats that have confidence c
WithConfidence(c) ==
  {k \in DOMAIN ret[1].val.items : ret[1].val.items[k].confidence = c}

\* C29: needsReviewCount equals lowConfidenceCount: every item without days of
\* supply has confidence low, so the items counted as needing review are the
\* low-confidence items, and no high- or medium-confidence item is among them
C29_NeedsReviewIsLow ==
  Applied("calculateStats") =>
    LET its == ret[1].val.items
        stats == ret[1].val.stats
    IN  /\ stats.needsReviewCount = stats.lowConfidenceCount
        /\ stats.needsReviewCount = Cardinality(WithConfidence("low"))
        /\ \A k \in DOMAIN its : its[k].daysSply = None => its[k].confidence = "low"
        /\ stats.needsReviewCount + Cardinality(WithConfidence("high"))
             + Cardinality(WithConfidence("medium")) = stats.totalItems

\* calculateStats was given a high-confidence item and an item without days of
\* supply, and counted one item as needing review
C29_Witness ==
  /\ Applied("calculateStats")
  /\ WithConfidence("high") # {}
  /\ \E k \in DOMAIN ret[1].val.items : ret[1].val.items[k].daysSply = None
  /\ ret[1].val.stats.needsReviewCount = 1


\* C30: parseTail of lineParser.ts and parseTail of api/parse.ts return the
\* same ip, slot, mrkCst, lndCst and daysSply for every token list, and when a
\* fixed field failed in the three-tier one the two-tier one returns low too
C30_TailsAgree ==
  Applied("both parseTails") =>
    LET api == ret[1].val.api
        legacy == ret[1].val.legacy
    IN  /\ legacy.ip = api.ip
        /\ legacy.slot = api.slot
        /\ legacy.mrkCst = api.mrkCst
        /\ legacy.lndCst = api.lndCst
        /\ legacy.daysSply = api.daysSply
        /\ FixedFailed(api) => (api.confidence = "low" /\ legacy.confidence = "low")

\* both were applied to tokens whose landed cost failed and whose days of
\* supply is an integer both read, and both returned low
C30_Witness ==
  /\ Applied("both parseTails")
  /\ ret[1].val.api.lndCst = None
  /\ ret[1].val.api.ip # None
  /\ ret[1].val.api.daysSply # None
  /\ ret[1].val.legacy.daysSply = ret[1].val.api.daysSply
  /\ ret[1].val.api.numericColumns >= 7
  /\ ret[1].val.legacy.confidence = "low"

====
